---------------------------- MODULE Spec2Model ----------------------------
(***************************************************************************)
(* A model of the Venus liquidation bot: the event monitor (active         *)
(* borrower set, repay verification, pruning through Multicall), the       *)
(* circuit breaker, the profitability pipeline and the monitoring loop     *)
(* with its settlement phase.                                              *)
(*                                                                         *)
(* Every await of the JavaScript source is a point where other callbacks   *)
(* may run, so every async function is split into one action per await.    *)
(* Code between two awaits runs atomically (single-threaded event loop).   *)
(***************************************************************************)
EXTENDS Integers, Sequences, FiniteSets, TLC

VARIABLES
    \* ---- EventMonitor (helpers/eventMonitor.js) and its database mirror
    activeBorrowers,   \* this.activeBorrowers : Set of addresses
    repayLocks,        \* this.repayLocks : keys of the Map
    repayReads,        \* RepayBorrow handlers suspended at `await borrowBalanceStored`
    lockTimers,        \* pending setTimeout(..., 1000) callbacks, per borrower
    dbEnabled,         \* BorrowerDatabase.isEnabled && db opened
    dbStatus,          \* borrowers table: "absent" | "active" (has_balance=1) | "zero"
    prunePc,           \* pruneBorrowers: "idle" | "reading" (awaiting the multicall)
    pruneSnap,         \* the `borrowers` array captured by pruneBorrowers
    bal,               \* ledger: borrowBalanceStored(b) on market m
    windowReads,       \* history: verification reads issued since b's lock was last free
    windowEvicts,      \* history: evictions by the repay handler in that window
    \* ---- CircuitBreaker (helpers/circuitBreaker.js)
    isTripped,         \* this.isTripped
    tripReason,        \* this.tripReason: "none" (null) | "extreme" | "error"
    priceHistory,      \* this.priceHistory: market -> sequence of sampled prices
    ckPc,              \* checkPrices: 0 idle, i > 0 awaiting the price of market i
    initPc,            \* initialize: 0 idle, i > 0 awaiting the price of market i
    initBy,            \* who awaits initialize: "none" | "main" | "reset"
    boot,              \* main(): "new" | "init" (awaiting initialize) | "run"
    initReads,         \* history: the oracle answers the initialize in flight has got
    \* ---- a function on its own (checkLiquidationOpportunity, batchCall, ...)
    evIn,              \* its arguments and the answers of the reads it makes
    evOut,             \* what it returned for them
    \* ---- main loop (bscLiquidationBot.js)
    isRunning,         \* let isRunning
    pc,                \* where main / monitorPositions is suspended
    gate,              \* this cycle's breaker verdict: "none" | "tripped" | "false" | "true"
    histPc,            \* getHistoricalBorrowers: market being queried, 0 = none
    cands,             \* borrowers of this cycle's scan, in order
    evals,             \* per candidate: "queued" | "running" | "null" | "opp"
    queue,             \* opportunities the for loop has not taken up yet
    execs,             \* executeLiquidation calls in flight
    liquidationCount,  \* let liquidationCount
    last,               \* history: the operation that made the last step, with its data
    scan,              \* this cycle's candidates, in the order of the borrowers array
    taken,             \* borrowers whose executeLiquidation this cycle has started, in order
    overtook,           \* some evaluation of this cycle settled before one listed earlier
    totalProfit,       \* let totalProfit
    opps,              \* the Opportunity objects this cycle's evaluations returned
    liquidations,       \* the liquidations table: tx_hash -> row
    shutdown,          \* the SIGINT handler: "no" | "closing" (awaiting wsProvider.destroy()) | "exit"
    lastPruningTs,     \* let lastPruningTs
    now,               \* monitorPositions: const now = Date.now(), of the latest cycle that took it
    clock,             \* what Date.now() returns
    isListening,       \* EventMonitor.isListening
    eventListeners,    \* EventMonitor.eventListeners: the contract objects kept, in order
    subscriptions,     \* the listeners registered with the provider: contract object and event
    contracts,         \* how many ethers.Contract objects startListening has created
    currentIndex,      \* rpcManager: let currentIndex
    provider,          \* rpcManager: the endpoint `provider` is bound to
    rpcHealth,         \* rpcManager: consecutiveFailures and avgResponseTime per endpoint
    rpcCall,           \* the getProvider call in flight: where it is suspended, what it tested
    reachable          \* the endpoints that answer getBlockNumber

monitorVars == <<activeBorrowers, repayLocks, repayReads, lockTimers, dbEnabled,
                 dbStatus, prunePc, pruneSnap, bal, windowReads, windowEvicts>>

breakerVars == <<isTripped, tripReason, priceHistory, ckPc, initPc, initBy, boot,
                 initReads>>

profitVars == <<evIn, evOut>>

botVars == <<isRunning, pc, gate, histPc, cands, evals, queue, execs, liquidationCount,
            scan, taken, overtook,
            totalProfit, opps, liquidations,
            shutdown>>

timerVars == <<lastPruningTs, now, clock>>

listenerVars == <<isListening, eventListeners, subscriptions, contracts>>

\* What only the specifications of the periodic pruning, of the listener and
\* of the RPC manager move.
rpcVars == <<currentIndex, provider, rpcHealth, rpcCall, reachable>>

restVars == <<timerVars, listenerVars, rpcVars>>

\* Everything but the RPC manager's state.
exceptRpc == <<monitorVars, breakerVars, profitVars, botVars, timerVars, listenerVars>>

vars == <<monitorVars, breakerVars, profitVars, botVars, restVars, last>>

\* What a component leaves alone.
exceptMonitor == <<breakerVars, profitVars, botVars, restVars>>

exceptBreaker == <<monitorVars, profitVars, botVars, restVars>>

exceptProfit == <<monitorVars, breakerVars, botVars, restVars>>

---------------------------------------------------------------------------
\* Bounds of the model

\* Borrow balances range over 0..MaxBalance.
MaxBalance == 1

\* Two borrower addresses and two of the tracked vToken markets.
Borrowers == {"b1", "b2"}

Markets == {"vBNB", "vUSDT"}

Balances == 0..MaxBalance

\* Outcome of one call inside an aggregate3 batch: success with decodable data,
\* success=false, or success with data decodeFunctionResult rejects.
CallOutcomes == {"ok", "fail", "bad"}

\* The result of an awaited read: a value, or a rejected promise.
ReadOk(v) == [ok |-> TRUE, val |-> v]

ReadFailed == [ok |-> FALSE, val |-> 0]

---------------------------------------------------------------------------
\* BorrowerDatabase

\* addBorrower: INSERT ... ON CONFLICT DO UPDATE SET has_balance = 1
dbAddBorrower(db, b) ==
    IF dbEnabled THEN [db EXCEPT ![b] = "active"] ELSE db

\* markBorrowerZeroBalance: UPDATE borrowers SET has_balance = 0 WHERE address = ?
\* (an UPDATE touches no row when the address was never inserted)
markBorrowerZeroBalance(db, b) ==
    IF dbEnabled /\ db[b] # "absent" THEN [db EXCEPT ![b] = "zero"] ELSE db

\* A query that lists every row, whatever its has_balance.
dbGetActiveBorrowersAll(db) == {b \in Borrowers : dbEnabled /\ db[b] # "absent"}

\* getActiveBorrowers: SELECT address FROM borrowers WHERE has_balance = 1;
\* the empty list without a database.
dbGetActiveBorrowers(db) == {b \in Borrowers : dbEnabled /\ db[b] = "active"}

\* An initialize whose catch leaves isEnabled as it was.
dbInitializeKeepsEnabled(configured, opened) == configured

\* initialize: whether the database is usable afterwards (isEnabled and db
\* set).  Nothing is opened when it is not configured; when opening or
\* creating the tables throws, the catch sets isEnabled to false.
dbInitialize(configured, opened) == configured /\ opened

RECURSIVE markAllZero(_, _)
markAllZero(db, S) ==
    IF S = {} THEN db
    ELSE LET b == CHOOSE x \in S : TRUE
         IN markAllZero(markBorrowerZeroBalance(db, b), S \ {b})

---------------------------------------------------------------------------
\* EventMonitor: Borrow and RepayBorrow handlers

\* vToken.on("Borrow", ...)
BorrowEvent(b) ==
    /\ activeBorrowers' = activeBorrowers \cup {b}
    /\ dbStatus' = dbAddBorrower(dbStatus, b)
    /\ last' = [op |-> "borrow", b |-> b]
    /\ UNCHANGED <<repayLocks, repayReads, lockTimers, dbEnabled, prunePc,
                   pruneSnap, bal, windowReads, windowEvicts>>

\* A handler without the lock test.
RepayLockedNever(b) == FALSE

\* The lock test at the head of the RepayBorrow handler.
RepayLocked(b) == b \in repayLocks

\* vToken.on("RepayBorrow", ...) up to its first await.  `claimed` is the
\* accountBorrows argument of the event, which the handler never reads.
RepayEvent(b, m, claimed) ==
    IF RepayLocked(b)
    THEN /\ last' = [op |-> "repaySkipped", b |-> b]
         /\ UNCHANGED monitorVars
    ELSE /\ repayLocks' = repayLocks \cup {b}
         /\ repayReads' = repayReads \cup {[b |-> b, m |-> m, claimed |-> claimed]}
         /\ windowReads' = [windowReads EXCEPT ![b] = @ + 1]
         /\ last' = [op |-> "repayRead", b |-> b]
         /\ UNCHANGED <<activeBorrowers, lockTimers, dbEnabled, dbStatus, prunePc,
                        pruneSnap, bal, windowEvicts>>

\* A handler that trusts the event's accountBorrows instead of the read.
RepayEvictsOnEvent(h, res) == h.claimed = 0

\* `currentBalance === 0n`: the handler's decision to evict.
RepayEvicts(h, res) == res.ok /\ res.val = 0

\* A release armed in the try block only, after a read that resolved.
ReleaseArmedOnSuccess(res) == res.ok

\* `finally { setTimeout(...) }`: the release is armed however the try ended.
ReleaseArmed(res) == TRUE

\* The handler from the resolution (or rejection) of borrowBalanceStored to
\* its end: try / catch / finally, the finally arming the 1000 ms timer.
RepayReadDone(h, res) ==
    /\ h \in repayReads
    /\ repayReads' = repayReads \ {h}
    /\ IF RepayEvicts(h, res)
       THEN /\ activeBorrowers' = activeBorrowers \ {h.b}
            /\ dbStatus' = markBorrowerZeroBalance(dbStatus, h.b)
            /\ windowEvicts' = [windowEvicts EXCEPT ![h.b] = @ + 1]
       ELSE UNCHANGED <<activeBorrowers, dbStatus, windowEvicts>>
    /\ lockTimers' = IF ReleaseArmed(res) THEN [lockTimers EXCEPT ![h.b] = @ + 1]
                   ELSE lockTimers
    /\ last' = [op |-> "repayDone", b |-> h.b, claimed |-> h.claimed, res |-> res]
    /\ UNCHANGED <<repayLocks, dbEnabled, prunePc, pruneSnap, bal, windowReads>>

\* The authoritative read answers with the ledger's balance, or fails.
RepayVerify ==
    \E h \in repayReads :
        \E res \in {ReadOk(bal[h.b][h.m]), ReadFailed} : RepayReadDone(h, res)

\* setTimeout(() => this.repayLocks.delete(borrower), 1000)
LockTimerFire(b) ==
    /\ lockTimers[b] > 0
    /\ lockTimers' = [lockTimers EXCEPT ![b] = @ - 1]
    /\ repayLocks' = repayLocks \ {b}
    /\ windowReads' = [windowReads EXCEPT ![b] = 0]
    /\ windowEvicts' = [windowEvicts EXCEPT ![b] = 0]
    /\ last' = [op |-> "lockReleased", b |-> b]
    /\ UNCHANGED <<activeBorrowers, repayReads, dbEnabled, dbStatus, prunePc,
                   pruneSnap, bal>>

\* A removal that leaves the set as it was.
removeBorrowerNone(S, address) == S

\* EventMonitor.removeBorrower: this.activeBorrowers.delete(address)
removeBorrower(S, address) == S \ {address}

\* EventMonitor.addBorrower: this.activeBorrowers.add(address)
addBorrower(S, address) == S \cup {address}

\* EventMonitor.getCount: this.activeBorrowers.size
getCount(S) == Cardinality(S)

\* EventMonitor.loadFromDatabase into a monitor holding S: every address the
\* database lists with has_balance = 1 is added.
loadFromDatabase(S) == S \cup dbGetActiveBorrowers(dbStatus)

\* eventMonitor.addBorrower(address), called from outside the handlers.  The
\* method does not call the database.
AddBorrower(b) ==
    /\ activeBorrowers' = addBorrower(activeBorrowers, b)
    /\ last' = [op |-> "add", b |-> b, was |-> b \in activeBorrowers,
                count |-> getCount(activeBorrowers)]
    /\ UNCHANGED <<repayLocks, repayReads, lockTimers, dbEnabled, dbStatus, prunePc,
                   pruneSnap, bal, windowReads, windowEvicts>>

\* eventMonitor.removeBorrower(address).  The method does not call the
\* database.
RemoveBorrower(b) ==
    /\ activeBorrowers' = removeBorrower(activeBorrowers, b)
    /\ last' = [op |-> "remove", b |-> b, was |-> b \in activeBorrowers,
                count |-> getCount(activeBorrowers)]
    /\ UNCHANGED <<repayLocks, repayReads, lockTimers, dbEnabled, dbStatus, prunePc,
                   pruneSnap, bal, windowReads, windowEvicts>>

\* eventMonitor.clear()
Clear ==
    /\ activeBorrowers' = {}
    /\ last' = [op |-> "clear"]
    /\ UNCHANGED <<repayLocks, repayReads, lockTimers, dbEnabled, dbStatus, prunePc,
                   pruneSnap, bal, windowReads, windowEvicts>>

\* The ledger moves on its own: a borrow, a repayment, a liquidation.
LedgerChange(b, m, v) ==
    /\ bal[b][m] # v
    /\ bal' = [bal EXCEPT ![b][m] = v]
    /\ last' = [op |-> "ledger"]
    /\ UNCHANGED <<activeBorrowers, repayLocks, repayReads, lockTimers, dbEnabled,
                   dbStatus, prunePc, pruneSnap, windowReads, windowEvicts>>

---------------------------------------------------------------------------
\* MulticallHelper and EventMonitor.pruneBorrowers

\* getBorrowBalances: one aggregate3 call per borrower x vToken; a call that
\* failed, or whose data does not decode, is entered with balance 0n.
getBorrowBalances(borrowers, out, vals) ==
    [b \in borrowers |->
        [m \in Markets |-> IF out[b][m] = "ok" THEN vals[b][m] ELSE 0]]

\* getActiveBorrowers: the borrowers with some balance > 0n.
getActiveBorrowers(borrowers, out, vals) ==
    LET balances == getBorrowBalances(borrowers, out, vals)
    IN {b \in borrowers : \E m \in Markets : balances[b][m] > 0}

\* pruneBorrowers up to `await multicallHelper.getActiveBorrowers(...)`.
\* The monitoring loop is the only caller and awaits it, so a second call
\* cannot start while one is suspended.
PruneStart ==
    /\ prunePc = "idle"
    /\ IF activeBorrowers = {}
       THEN /\ last' = [op |-> "pruneEmpty"]
            /\ UNCHANGED monitorVars
       ELSE /\ prunePc' = "reading"
            /\ pruneSnap' = activeBorrowers
            /\ last' = [op |-> "pruneStart"]
            /\ UNCHANGED <<activeBorrowers, repayLocks, repayReads, lockTimers,
                           dbEnabled, dbStatus, bal, windowReads, windowEvicts>>

\* The borrowers for whom every call of the batch succeeded, decoded and
\* returned zero (history only: the code never computes this set).
DefinitelyZero(borrowers, out, vals) ==
    {b \in borrowers : \A m \in Markets : out[b][m] = "ok" /\ vals[b][m] = 0}

\* The borrowers pruneBorrowers deletes, given the multicall's answer.
PruneEvicted(borrowers, out, vals) ==
    borrowers \ getActiveBorrowers(borrowers, out, vals)

\* pruneBorrowers after the multicall resolved with per-call outcomes `out`.
PruneDone(out) ==
    /\ prunePc = "reading"
    /\ LET vals == [b \in pruneSnap |-> bal[b]]
           gone == PruneEvicted(pruneSnap, out, vals)
       IN /\ activeBorrowers' = activeBorrowers \ gone
          /\ dbStatus' = markAllZero(dbStatus, gone)
          /\ last' = [op |-> "pruneDone", evicted |-> gone,
                      zero |-> DefinitelyZero(pruneSnap, out, vals)]
    /\ prunePc' = "idle"
    /\ pruneSnap' = {}
    /\ UNCHANGED <<repayLocks, repayReads, lockTimers, dbEnabled, bal,
                   windowReads, windowEvicts>>

\* aggregate3 itself rejects: batchCall rethrows, pruneBorrowers throws and
\* monitorPositions catches ("Pruning error"); nothing is deleted.
PruneBatchError ==
    /\ prunePc = "reading"
    /\ prunePc' = "idle"
    /\ pruneSnap' = {}
    /\ last' = [op |-> "pruneError"]
    /\ UNCHANGED <<activeBorrowers, repayLocks, repayReads, lockTimers, dbEnabled,
                   dbStatus, bal, windowReads, windowEvicts>>

PruneAnswer ==
    \E out \in [pruneSnap -> [Markets -> CallOutcomes]] : PruneDone(out)

---------------------------------------------------------------------------
\* CircuitBreaker

\* Object.entries(this.markets): the markets in insertion order.
MarketOrder == <<"vBNB", "vUSDT">>

\* Prices the oracle may answer with (18-decimal mantissas scaled down).
\* 100 -> 145 is a 45% move; 20000 -> 26001 is a 30.005% move; 0 is what
\* the oracle answers for a market it has no feed for.
Prices == {0, 100, 145, 20000, 26001}

\* this.maxPriceChangePercent
maxPriceChangePercent == 30

\* this.historySize is 10 in the source; the model keeps fewer samples so
\* that the drop of the oldest one is exercised.
historySize == 2

AbsDiff(a, b) == IF a > b THEN a - b ELSE b - a

\* (priceDiff * 10000n) / lastPrice: the change in basis points, truncated
\* by BigInt division; 0 when lastPrice is 0n.
percentChangeBp(lastPrice, currentPrice) ==
    IF lastPrice > 0 THEN (AbsDiff(currentPrice, lastPrice) * 10000) \div lastPrice
    ELSE 0

\* `percentChange > this.maxPriceChangePercent`, percentChange being
\* Number(bp) / 100.
ExceedsThreshold(lastPrice, currentPrice) ==
    percentChangeBp(lastPrice, currentPrice) > maxPriceChangePercent * 100

\* history.push(sample); if (history.length > historySize) history.shift()
pushSample(history, price) ==
    LET h == Append(history, price)
    IN IF Len(h) > historySize THEN Tail(h) ELSE h

\* main(): `await circuitBreaker.initialize()` before the loop starts.
BootInitialize ==
    /\ boot = "new"
    /\ boot' = "init"
    /\ initPc' = 1
    /\ initBy' = "main"
    /\ initReads' = <<>>
    /\ last' = [op |-> "boot"]
    /\ UNCHANGED <<isTripped, tripReason, priceHistory, ckPc>>

\* reset() up to the first await of initialize().  One initialize is in
\* flight at a time in the model.
ResetStart ==
    /\ boot = "run"
    /\ initPc = 0
    /\ isTripped' = FALSE
    /\ tripReason' = "none"
    /\ initPc' = 1
    /\ initBy' = "reset"
    /\ initReads' = <<>>
    /\ last' = [op |-> "resetStart"]
    /\ UNCHANGED <<priceHistory, ckPc, boot>>

\* initialize(): one oracle answer; a failed read is logged and skipped.
InitRead(res) ==
    /\ initPc > 0
    /\ priceHistory' =
          IF res.ok THEN [priceHistory EXCEPT ![MarketOrder[initPc]] = <<res.val>>]
          ELSE priceHistory
    /\ IF initPc < Len(MarketOrder)
       THEN /\ initPc' = initPc + 1
            /\ initReads' = Append(initReads, res)
            /\ last' = [op |-> "initRead"]
            /\ UNCHANGED <<initBy, boot>>
       ELSE /\ initPc' = 0
            /\ initBy' = "none"
            /\ initReads' = <<>>
            /\ boot' = IF initBy = "main" THEN "run" ELSE boot
            /\ last' = [op |-> IF initBy = "main" THEN "booted" ELSE "resetDone",
                        res |-> res]
    /\ UNCHANGED <<isTripped, tripReason, ckPc>>

\* A checkPrices that starts on a tripped breaker and returns at once.
CheckGuardOff == FALSE

\* `if (this.isTripped) return false`
CheckGuard == isTripped

\* checkPrices() up to its first await.  Its only caller is the monitoring
\* loop, which awaits it, so one call is in flight at a time.
CheckStart ==
    /\ boot = "run"
    /\ ckPc = 0
    /\ IF CheckGuard
       THEN /\ last' = [op |-> "checkStart", ret |-> "false"]
            /\ UNCHANGED breakerVars
       ELSE /\ ckPc' = 1
            /\ last' = [op |-> "checkStart", ret |-> "pending"]
            /\ UNCHANGED <<isTripped, tripReason, priceHistory, initPc, initBy, boot, initReads>>

\* A catch block that logs the error and lets the check pass.
CheckReadErrorIgnored ==
    /\ ckPc' = 0
    /\ last' = [op |-> "checkRead", m |-> MarketOrder[ckPc], res |-> [ok |-> FALSE, val |-> 0],
                prev |-> priceHistory[MarketOrder[ckPc]], ret |-> "true"]
    /\ UNCHANGED <<isTripped, tripReason, priceHistory, initPc, initBy, boot, initReads>>

\* catch (error): trip(`Price check failed`) and return false.
CheckReadError ==
    /\ isTripped' = TRUE
    /\ tripReason' = "error"
    /\ ckPc' = 0
    /\ last' = [op |-> "checkRead", m |-> MarketOrder[ckPc], res |-> ReadFailed,
                prev |-> priceHistory[MarketOrder[ckPc]], ret |-> "false"]
    /\ UNCHANGED <<priceHistory, initPc, initBy, boot, initReads>>

\* One iteration of the loop over the markets, from the oracle's answer to
\* the next await or to the return.
CheckReadPrice(price) ==
    LET m == MarketOrder[ckPc]
        history == priceHistory[m]
        more == ckPc < Len(MarketOrder)
        note(ret) == [op |-> "checkRead", m |-> m, res |-> ReadOk(price),
                      prev |-> history, ret |-> ret]
    IN IF history # <<>> /\ ExceedsThreshold(history[Len(history)], price)
       THEN /\ isTripped' = TRUE
            /\ tripReason' = "extreme"
            /\ ckPc' = 0
            /\ last' = note("false")
            /\ UNCHANGED <<priceHistory, initPc, initBy, boot, initReads>>
       ELSE /\ priceHistory' =
                  [priceHistory EXCEPT
                      ![m] = IF history = <<>> THEN <<price>> ELSE pushSample(history, price)]
            /\ ckPc' = IF more THEN ckPc + 1 ELSE 0
            /\ last' = note(IF more THEN "pending" ELSE "true")
            /\ UNCHANGED <<isTripped, tripReason, initPc, initBy, boot, initReads>>

CheckRead(res) ==
    /\ ckPc > 0
    /\ IF res.ok THEN CheckReadPrice(res.val) ELSE CheckReadError

\* What an awaited oracle.getUnderlyingPrice may produce.
OracleAnswers == {ReadOk(p) : p \in Prices} \cup {ReadFailed}

InitBreaker ==
    /\ isTripped = FALSE
    /\ tripReason = "none"
    /\ priceHistory = [m \in Markets |-> <<>>]
    /\ ckPc = 0
    /\ initPc = 0
    /\ initBy = "none"
    /\ boot = "new"
    /\ initReads = <<>>

---------------------------------------------------------------------------
\* Profitability: helpers/liquidationCalculator.js, helpers/venusHelpers.js
\* and checkLiquidationOpportunity.
\*
\* Amounts are 18-decimal fixed point in the source.  The model keeps three
\* decimals (ONE is 1000 for 1e18), counts gas in units of 100000 and gas
\* prices in units of 10 gwei, so that gas * gasPrice is in the same unit as
\* the amounts.  Every division is the truncating BigInt division.

\* ethers.parseEther("1")
ONE == 1000

\* MIN_PROFIT_THRESHOLD = parseEther("0.01")
MIN_PROFIT_THRESHOLD == 10

\* MAX_LIQUIDATION_SIZE = parseEther("100")
MAX_LIQUIDATION_SIZE == 100000

\* DEFAULT_GAS_LIMIT = 800000n
DEFAULT_GAS_LIMIT == 8

\* DEFAULT_SWAP_SLIPPAGE = 0.01; a slippage is kept in thousandths
DEFAULT_SWAP_SLIPPAGE == 10

\* A slippage factor with the sign of the slippage turned.
slippageFactorOver(swapSlippage) == ONE + swapSlippage

\* BigInt(Math.floor((1 - swapSlippage) * 1e18))
slippageFactor(swapSlippage) == ONE - swapSlippage

\* The absence of a value (null / undefined).
Null == [null |-> TRUE]

\* getVenusAccountData: null when the read throws or the comptroller reports
\* an error code; otherwise the shortfall and `isLiquidatable: shortfall > 0n`.
getVenusAccountData(read) ==
    IF ~read.ok \/ read.err # 0 THEN Null
    ELSE [shortfall |-> read.shortfall, isLiquidatable |-> read.shortfall > 0]

\* A position: a market with a positive balance, its price and its value.
Position(m, amount, price) ==
    [vToken |-> m, amount |-> amount, priceUSD |-> price,
     valueUSD |-> (amount * price) \div ONE]

\* positions.sort by valueUSD, largest first; Array.prototype.sort is stable,
\* so equal values keep the market order.  Insertion into a sorted sequence.
RECURSIVE sortByValue(_)
sortByValue(ps) ==
    IF ps = <<>> THEN <<>>
    ELSE LET rest == sortByValue(Tail(ps))
             x == Head(ps)
             before == SelectSeq(rest, LAMBDA y : y.valueUSD > x.valueUSD)
             after == SelectSeq(rest, LAMBDA y : y.valueUSD <= x.valueUSD)
         IN before \o <<x>> \o after

\* getAllBorrowPositions / getAllCollateralPositions: the markets with a
\* positive balance, in market order, then sorted by value.
RECURSIVE positionsFrom(_, _, _)
positionsFrom(i, amounts, prices) ==
    IF i > Len(MarketOrder) THEN <<>>
    ELSE LET m == MarketOrder[i]
             rest == positionsFrom(i + 1, amounts, prices)
         IN IF amounts[m] > 0
            THEN <<Position(m, amounts[m], prices[m])>> \o rest
            ELSE rest

getAllPositions(amounts, prices) == sortByValue(positionsFrom(1, amounts, prices))

\* findBestLiquidationPair: the first (largest) debt and collateral, and
\* maxRepay = borrowBalance * closeFactor / 1e18; null without positions or
\* without liquidation parameters.
findBestLiquidationPair(borrowPositions, collateralPositions, params) ==
    IF borrowPositions = <<>> \/ collateralPositions = <<>> THEN Null
    ELSE IF params = Null THEN Null
    ELSE [debtPosition |-> borrowPositions[1],
          collateralPosition |-> collateralPositions[1],
          maxRepayAmount |-> (borrowPositions[1].amount * params.closeFactor) \div ONE,
          liquidationIncentive |-> params.liquidationIncentive]

\* convertAmountToBNB
convertAmountToBNB(amount, tokenPriceUSD, bnbPriceUSD) ==
    IF tokenPriceUSD = 0 \/ bnbPriceUSD = 0 THEN 0
    ELSE (((amount * tokenPriceUSD) \div ONE) * ONE) \div bnbPriceUSD

\* convertBNBToAmount
convertBNBToAmount(bnbAmount, tokenPriceUSD, bnbPriceUSD) ==
    IF tokenPriceUSD = 0 \/ bnbPriceUSD = 0 THEN bnbAmount
    ELSE (((bnbAmount * bnbPriceUSD) \div ONE) * ONE) \div tokenPriceUSD

\* A seizure without the liquidation incentive.
calculateCollateralSeizedNoBonus(repayAmount, debtTokenPrice, collateralTokenPrice, liquidationIncentive) ==
    (((repayAmount * debtTokenPrice) \div ONE) * ONE) \div collateralTokenPrice

\* calculateCollateralSeized
calculateCollateralSeized(repayAmount, debtTokenPrice, collateralTokenPrice, liquidationIncentive) ==
    LET repayValueUSD == (repayAmount * debtTokenPrice) \div ONE
        repayValueWithBonus == (repayValueUSD * liquidationIncentive) \div ONE
    IN (repayValueWithBonus * ONE) \div collateralTokenPrice

\* calculateLiquidationProfit
calculateLiquidationProfit(repayAmount, collateralReceived, collateralToDebtRate, gasPrice, estimatedGasUnits, swapSlippage) ==
    LET collateralValueInDebt == (collateralReceived * collateralToDebtRate) \div ONE
        collateralValueAfterSlippage ==
            (collateralValueInDebt * slippageFactor(swapSlippage)) \div ONE
        gasCost == estimatedGasUnits * gasPrice
        grossProfit == IF collateralValueAfterSlippage > repayAmount
                       THEN collateralValueAfterSlippage - repayAmount ELSE 0
        netProfit == IF grossProfit > gasCost THEN grossProfit - gasCost ELSE 0
    IN [gasCost |-> gasCost, grossProfit |-> grossProfit, netProfit |-> netProfit,
        isProfitable |-> netProfit > 0]

\* An emission test without the threshold.
BelowThresholdOff(profit, profitBNB) == ~profit.isProfitable

\* `!profit.isProfitable || profitBNB < MIN_PROFIT_THRESHOLD`
BelowThreshold(profit, profitBNB) ==
    ~profit.isProfitable \/ profitBNB < MIN_PROFIT_THRESHOLD

\* A size test that never caps.
ExceedsSizeCapNever(repayValueBNB) == FALSE

\* `repayValueBNB > MAX_LIQUIDATION_SIZE`
ExceedsSizeCap(repayValueBNB) == repayValueBNB > MAX_LIQUIDATION_SIZE

\* `!account || !account.isLiquidatable`
NotLiquidatable(account) == account = Null \/ ~account.isLiquidatable

\* checkLiquidationOpportunity for one borrower, given what its reads answer:
\*   in.account    getAccountLiquidity: [ok, err, shortfall]
\*   in.readsOk    FALSE when a read of the Promise.all (or a later one) throws
\*   in.debt, in.coll   borrow and collateral amounts per market
\*   in.price      oracle price per market (vBNB's is the BNB price)
\*   in.params     getLiquidationParameters: Null or incentive and close factor
\*   in.gasPrice   getSafeGasPrice
\* The result is Null or the Opportunity.
checkLiquidationOpportunity(b, in) ==
    LET account == getVenusAccountData(in.account)
    IN IF NotLiquidatable(account) THEN Null
       ELSE IF ~in.readsOk THEN Null
       ELSE
       LET borrowPositions == getAllPositions(in.debt, in.price)
           collateralPositions == getAllPositions(in.coll, in.price)
           bnbPriceUSD == in.price[MarketOrder[1]]
       IN IF borrowPositions = <<>> \/ collateralPositions = <<>> \/ in.params = Null
          THEN Null
          \* a BigInt division by a zero price throws, and the catch returns null
          ELSE IF borrowPositions[1].priceUSD = 0 \/ collateralPositions[1].priceUSD = 0
          THEN Null
          ELSE
          LET pair == findBestLiquidationPair(borrowPositions, collateralPositions, in.params)
              debtPrice == pair.debtPosition.priceUSD
              collPrice == pair.collateralPosition.priceUSD
              repayValueBNB == convertAmountToBNB(pair.maxRepayAmount, debtPrice, bnbPriceUSD)
              repayAmount == IF ExceedsSizeCap(repayValueBNB)
                             THEN convertBNBToAmount(MAX_LIQUIDATION_SIZE, debtPrice, bnbPriceUSD)
                             ELSE pair.maxRepayAmount
              collateralReceived == calculateCollateralSeized(
                                        repayAmount, debtPrice, collPrice,
                                        pair.liquidationIncentive)
              collateralToDebtRate == (collPrice * ONE) \div debtPrice
              profit == calculateLiquidationProfit(
                            repayAmount, collateralReceived, collateralToDebtRate,
                            in.gasPrice, DEFAULT_GAS_LIMIT, DEFAULT_SWAP_SLIPPAGE)
              profitBNB == convertAmountToBNB(profit.netProfit, debtPrice, bnbPriceUSD)
          IN IF BelowThreshold(profit, profitBNB) THEN Null
             ELSE [borrower |-> b,
                   vDebtToken |-> pair.debtPosition.vToken,
                   vCollateralToken |-> pair.collateralPosition.vToken,
                   repayAmount |-> repayAmount,
                   expectedProfit |-> profitBNB,
                   netProfit |-> profit.netProfit,
                   shortfall |-> account.shortfall]

\* The reads of one evaluation.  A market whose read throws is skipped by
\* getAllBorrowPositions / getAllCollateralPositions, which is the same as a
\* zero amount.
AccountReads ==
    {[ok |-> FALSE, err |-> 0, shortfall |-> 0]}
    \cup [ok : {TRUE}, err : {0, 1}, shortfall : {0, 5}]

DebtAmounts == {0, 1000, 400000}

CollateralAmounts == {0, 1000}

OraclePrices == {0, 1000, 2000}

\* liquidationIncentiveMantissa / closeFactorMantissa: 1.08 or 1.00, 0.5
LiquidationParameters ==
    {Null, [liquidationIncentive |-> 1080, closeFactor |-> 500],
     [liquidationIncentive |-> 1000, closeFactor |-> 500]}

GasPrices == {1, 2, 3}

EvaluationInputs ==
    [account : AccountReads, readsOk : BOOLEAN,
     debt : [Markets -> DebtAmounts], coll : [Markets -> CollateralAmounts],
     price : [Markets -> OraclePrices], params : LiquidationParameters,
     gasPrice : GasPrices]

NotEvaluated == [pending |-> TRUE]

IsOpportunity(r) == r # Null /\ r # NotEvaluated

InitProfit == evIn \in EvaluationInputs /\ evOut = NotEvaluated

InitProfitIdle ==
    /\ evIn = [account |-> [ok |-> FALSE, err |-> 0, shortfall |-> 0], readsOk |-> FALSE,
               debt |-> [m \in Markets |-> 0], coll |-> [m \in Markets |-> 0],
               price |-> [m \in Markets |-> 0], params |-> Null, gasPrice |-> 1]
    /\ evOut = NotEvaluated

\* One call of checkLiquidationOpportunity.
Evaluate(b) ==
    /\ evOut = NotEvaluated
    /\ evOut' = checkLiquidationOpportunity(b, evIn)
    /\ evIn' = evIn
    /\ last' = [op |-> "evaluate", b |-> b]

---------------------------------------------------------------------------
\* The monitoring loop: main, monitorPositions, executeLiquidation and the
\* Telegram commands of bscLiquidationBot.js, with event monitoring enabled.
\* Code between two awaits runs without interruption; a value of pc names the
\* await the loop is suspended at, or a point inside one synchronous stretch
\* (LoopBusy), where no handler can run.

\* MAX_BORROWERS_PER_SCAN
MAX_BORROWERS_PER_SCAN == 25

\* MAX_CONCURRENT_CHECKS
MAX_CONCURRENT_CHECKS == 5

\* BORROWER_PRUNING_INTERVAL_MS (300000 by default), in ticks of the clock.
BORROWER_PRUNING_INTERVAL_MS == 2

\* Successful liquidations counted in one run of the model.
MaxLiquidations == 1

Min(a, b) == IF a < b THEN a ELSE b

\* The ways a Set of addresses can iterate: Array.from(this.activeBorrowers)
\* follows insertion order, which the model does not keep.
Orders(S) ==
    {s \in [1..Cardinality(S) -> S] : \A i, j \in 1..Cardinality(S) : i # j => s[i] # s[j]}

NoRead == [ok |-> FALSE, err |-> 0, shortfall |-> 0]

\* verifyLiquidatable: false on a protocol error or a failed read, otherwise
\* shortfall > 0n.
verifyLiquidatable(read) ==
    IF ~read.ok THEN FALSE
    ELSE IF read.err # 0 THEN FALSE
    ELSE read.shortfall > 0

\* A loop that goes on whatever checkPrices returned.
PricesOkIgnored(ret) == TRUE

\* `if (!pricesOk) { ...; return; }`
PricesOk(ret) == ret = "true"

\* An execution that skips the `if (!stillValid)` return.
StillValidAlways(read) == TRUE

\* `const stillValid = await verifyLiquidatable(...)`
StillValid(read) == verifyLiquidatable(read)

\* A settlement loop that does not await executeLiquidation.
SettleReadyNoAwait == TRUE

\* `await executeLiquidation(opportunity)`: the for loop goes on when the
\* execution it started has returned.
SettleReady == execs = {}

LoopBusy ==
    \/ pc \in {"gated", "pruned", "list"}
    \/ pc = "settle" /\ execs = {}

Alive == pc # "exit"

\* bot.onText(/\/start/)
CmdStart ==
    /\ Alive /\ ~LoopBusy
    /\ isRunning' = TRUE
    /\ last' = [op |-> "cmdStart"]
    /\ UNCHANGED <<pc, gate, histPc, cands, evals, queue, execs, liquidationCount,
                   scan, taken, overtook,
                   totalProfit, opps, liquidations,
                   shutdown>>

\* bot.onText(/\/stop/)
CmdStop ==
    /\ Alive /\ ~LoopBusy
    /\ isRunning' = FALSE
    /\ last' = [op |-> "cmdStop"]
    /\ UNCHANGED <<pc, gate, histPc, cands, evals, queue, execs, liquidationCount,
                   scan, taken, overtook,
                   totalProfit, opps, liquidations,
                   shutdown>>

\* main() up to `await circuitBreaker.initialize()`: borrowerDB.initialize()
\* on a database that is configured or not and opens or not, then the first
\* read of the breaker's initialize.
MainStart(configured, opened) ==
    /\ pc = "boot" /\ boot = "new"
    /\ dbEnabled' = dbInitialize(configured, opened)
    /\ boot' = "init"
    /\ initPc' = 1
    /\ initBy' = "main"
    /\ initReads' = <<>>
    /\ last' = [op |-> "mainStart", configured |-> configured, opened |-> opened]
    /\ UNCHANGED <<isTripped, tripReason, priceHistory, ckPc>>
    /\ UNCHANGED <<activeBorrowers, repayLocks, repayReads, lockTimers, dbStatus, prunePc,
                   pruneSnap, bal, windowReads, windowEvicts>>
    /\ UNCHANGED botVars

\* main() after `await circuitBreaker.initialize()`: loadFromDatabase,
\* startListening and `await provider.getBlockNumber()`.  A rejection here
\* leaves main, and main().catch exits the process.
StartupSeed(ok) ==
    /\ pc = "boot" /\ boot = "run"
    /\ activeBorrowers' = loadFromDatabase(activeBorrowers)
    /\ IF ok THEN pc' = "seed" /\ histPc' = 1
       ELSE pc' = "exit" /\ histPc' = 0
    /\ last' = [op |-> "startup", ok |-> ok,
                loaded |-> Cardinality(dbGetActiveBorrowers(dbStatus))]
    /\ UNCHANGED <<repayLocks, repayReads, lockTimers, dbEnabled, dbStatus, prunePc,
                   pruneSnap, bal, windowReads, windowEvicts>>
    /\ UNCHANGED <<isRunning, gate, cands, evals, queue, execs, liquidationCount,
                   scan, taken, overtook,
                   totalProfit, opps, liquidations,
                   shutdown>>

RECURSIVE addBorrowersBatch(_, _)
addBorrowersBatch(db, S) ==
    IF S = {} THEN db
    ELSE LET b == CHOOSE x \in S : TRUE
         IN addBorrowersBatch(dbAddBorrower(db, b), S \ {b})

\* getHistoricalBorrowers: the queryFilter of one market answers with the
\* borrowers `found` of its Borrow events, or throws and the market is skipped.
\* Called by main to seed the monitor and by the periodic historical catch.
HistQuery(ok, found) ==
    /\ pc \in {"seed", "catch"} /\ histPc > 0
    /\ IF ok
       THEN /\ activeBorrowers' = activeBorrowers \cup found
            /\ dbStatus' = addBorrowersBatch(dbStatus, found)
       ELSE UNCHANGED <<activeBorrowers, dbStatus>>
    /\ IF histPc < Len(MarketOrder)
       THEN histPc' = histPc + 1 /\ pc' = pc
       ELSE histPc' = 0 /\ pc' = IF pc = "seed" THEN "top" ELSE "list"
    /\ last' = [op |-> "histQuery", ok |-> ok]
    /\ UNCHANGED <<repayLocks, repayReads, lockTimers, dbEnabled, prunePc,
                   pruneSnap, bal, windowReads, windowEvicts>>
    /\ UNCHANGED <<isRunning, gate, cands, evals, queue, execs, liquidationCount,
                   scan, taken, overtook,
                   totalProfit, opps, liquidations,
                   shutdown>>

\* The head of the while loop and of monitorPositions, up to
\* `await circuitBreaker.checkPrices()`.
LoopTop ==
    /\ pc \in {"top", "sleep"}
    /\ IF ~isRunning
       THEN /\ pc' = "sleep"
            /\ last' = [op |-> "idle"]
            /\ UNCHANGED <<gate, breakerVars>>
       ELSE IF isTripped
       THEN /\ pc' = "sleep"
            /\ gate' = "tripped"
            /\ last' = [op |-> "skipTripped"]
            /\ UNCHANGED breakerVars
       ELSE /\ CheckStart
            /\ pc' = "check"
            /\ gate' = "none"
    /\ UNCHANGED <<isRunning, histPc, cands, evals, queue, execs, liquidationCount,
                   scan, taken, overtook,
                   totalProfit, opps, liquidations,
                   shutdown>>

\* checkPrices goes on with one oracle answer; when it returns, the loop
\* tests pricesOk.
CycleCheck(res) ==
    /\ pc = "check"
    /\ CheckRead(res)
    /\ IF last'.ret = "pending"
       THEN UNCHANGED <<pc, gate>>
       ELSE /\ gate' = last'.ret
            /\ pc' = IF PricesOk(last'.ret) THEN "gated" ELSE "sleep"
    /\ UNCHANGED <<isRunning, histPc, cands, evals, queue, execs, liquidationCount,
                   scan, taken, overtook,
                   totalProfit, opps, liquidations,
                   shutdown>>

\* `if (now - lastPruningTs > BORROWER_PRUNING_INTERVAL_MS)`: when due, the
\* loop awaits pruneBorrowers.
CyclePrune(due) ==
    /\ pc = "gated"
    /\ IF due
       THEN /\ PruneStart
            /\ pc' = IF prunePc' = "reading" THEN "prune" ELSE "pruned"
       ELSE /\ pc' = "pruned"
            /\ last' = [op |-> "pruneNotDue"]
            /\ UNCHANGED monitorVars
    /\ UNCHANGED <<isRunning, gate, histPc, cands, evals, queue, execs, liquidationCount,
                   scan, taken, overtook,
                   totalProfit, opps, liquidations,
                   shutdown>>

\* pruneBorrowers returns or throws into the loop's catch.
CyclePruned(failed, out) ==
    /\ pc = "prune"
    /\ IF failed THEN PruneBatchError ELSE PruneDone(out)
    /\ pc' = "pruned"
    /\ UNCHANGED <<isRunning, gate, histPc, cands, evals, queue, execs, liquidationCount,
                   scan, taken, overtook,
                   totalProfit, opps, liquidations,
                   shutdown>>

\* The periodic historical catch: when due, `await provider.getBlockNumber()`.
CycleCatch(due) ==
    /\ pc = "pruned"
    /\ pc' = IF due THEN "catchBlock" ELSE "list"
    /\ last' = [op |-> IF due THEN "catchStart" ELSE "catchNotDue"]
    /\ UNCHANGED <<isRunning, gate, histPc, cands, evals, queue, execs, liquidationCount,
                   scan, taken, overtook,
                   totalProfit, opps, liquidations,
                   shutdown>>

\* getBlockNumber answers; a rejection is caught ("Historical catch error").
CatchBlock(ok) ==
    /\ pc = "catchBlock"
    /\ IF ok THEN pc' = "catch" /\ histPc' = 1
       ELSE pc' = "list" /\ histPc' = 0
    /\ last' = [op |-> "catchBlock", ok |-> ok]
    /\ UNCHANGED <<isRunning, gate, cands, evals, queue, execs, liquidationCount,
                   scan, taken, overtook,
                   totalProfit, opps, liquidations,
                   shutdown>>

\* pLimit: queued tasks are started in order while fewer than
\* MAX_CONCURRENT_CHECKS are active; a task that starts with isRunning false
\* returns null at once (`if (!isRunning) return null`) and frees its slot.
PoolFullNever(active) == FALSE

PoolFull(active) == active >= MAX_CONCURRENT_CHECKS

\* A queued task starts when the tasks active before this pass, and those
\* started ahead of it in this pass that still hold their slot, leave room.
Schedule(ev, running) ==
    LET active == Cardinality({i \in DOMAIN ev : ev[i] = "running"})
        ahead(i) == IF running THEN Cardinality({j \in 1..(i - 1) : ev[j] = "queued"}) ELSE 0
    IN [i \in DOMAIN ev |->
          IF ev[i] = "queued" /\ ~PoolFull(active + ahead(i))
          THEN (IF running THEN "running" ELSE "null")
          ELSE ev[i]]

\* A collection that lists the Opportunities last candidate first.
RECURSIVE OpportunitiesLastFirst(_, _, _)
OpportunitiesLastFirst(borrowers, ev, i) ==
    IF i > Len(borrowers) THEN <<>>
    ELSE OpportunitiesLastFirst(borrowers, ev, i + 1)
         \o (IF ev[i] = "opp" THEN <<borrowers[i]>> ELSE <<>>)

\* (await Promise.all(checkPromises)).filter(opp => opp !== null): the
\* borrowers with an Opportunity, in the order of the candidates.
RECURSIVE Opportunities(_, _, _)
Opportunities(borrowers, ev, i) ==
    IF i > Len(borrowers) THEN <<>>
    ELSE (IF ev[i] = "opp" THEN <<borrowers[i]>> ELSE <<>>)
         \o Opportunities(borrowers, ev, i + 1)

\* The loop after a change of the evaluations: it stays at the Promise.all
\* until every evaluation has settled, then enters the for loop.
AwaitEvaluations(borrowers, ev) ==
    IF \A i \in DOMAIN ev : ev[i] \in {"null", "opp"}
    THEN /\ pc' = "settle"
         /\ queue' = Opportunities(borrowers, ev, 1)
         /\ cands' = <<>>
         /\ evals' = <<>>
    ELSE /\ pc' = "eval"
         /\ queue' = <<>>
         /\ cands' = borrowers
         /\ evals' = ev

\* borrowers.map(borrower => limit(...))
BeginEvaluations(borrowers) ==
    /\ AwaitEvaluations(borrowers,
                        Schedule([i \in 1..Len(borrowers) |-> "queued"], isRunning))
    /\ scan' = borrowers
    /\ taken' = <<>>
    /\ overtook' = FALSE
    /\ opps' = {}

\* getActiveBorrowers of the bot: with borrowers in the event monitor, the
\* first MAX_BORROWERS_PER_SCAN of them; otherwise the legacy event query.
\* `order` is what eventMonitor.getActiveBorrowers() returns:
\* Array.from(this.activeBorrowers).
CycleListIn(order) ==
    /\ pc = "list"
    /\ order \in Orders(activeBorrowers)
    /\ IF activeBorrowers # {}
       THEN BeginEvaluations(SubSeq(order, 1, Min(Len(order), MAX_BORROWERS_PER_SCAN)))
       ELSE /\ pc' = "legacy"
            /\ UNCHANGED <<cands, evals, queue, scan, taken, overtook, opps>>
    /\ last' = [op |-> "list"]
    /\ UNCHANGED <<isRunning, gate, histPc, execs, liquidationCount,
                   totalProfit, liquidations,
                   shutdown>>

\* The same when the order in which the Set iterates is not known.
CycleList == \E order \in Orders(activeBorrowers) : CycleListIn(order)

\* The legacy query answers with the borrowers of recent Borrow events (or
\* the cached list), or getBlockNumber rejects and the loop's catch ends the
\* cycle.
LegacyFetch(ok, order) ==
    /\ pc = "legacy"
    /\ IF ok
       THEN BeginEvaluations(SubSeq(order, 1, Min(Len(order), MAX_BORROWERS_PER_SCAN)))
       ELSE /\ pc' = "sleep"
            /\ UNCHANGED <<cands, evals, queue, scan, taken, overtook, opps>>
    /\ last' = [op |-> "legacy", ok |-> ok]
    /\ UNCHANGED <<isRunning, gate, histPc, execs, liquidationCount,
                   totalProfit, liquidations,
                   shutdown>>

\* What the reads of an evaluation in the loop answer.
Scenarios ==
    {in \in EvaluationInputs :
        /\ in.readsOk
        /\ in.account \in {[ok |-> TRUE, err |-> 0, shortfall |-> 5],
                           [ok |-> TRUE, err |-> 0, shortfall |-> 0]}
        /\ in.debt = [m \in Markets |-> IF m = "vBNB" THEN 1000 ELSE 0]
        /\ in.coll = [m \in Markets |-> IF m = "vBNB" THEN 1000 ELSE 0]
        /\ in.price = [m \in Markets |-> 1000]
        /\ in.params = [liquidationIncentive |-> 1080, closeFactor |-> 500]
        /\ in.gasPrice = 1}

\* Something inside the try block of checkLiquidationOpportunity throws: a
\* read after the account was found liquidatable, or a BigInt division by a
\* zero price.
EvaluationThrows(in) ==
    /\ ~NotLiquidatable(getVenusAccountData(in.account))
    /\ \/ ~in.readsOk
       \/ LET borrowPositions == getAllPositions(in.debt, in.price)
              collateralPositions == getAllPositions(in.coll, in.price)
          IN /\ borrowPositions # <<>> /\ collateralPositions # <<>> /\ in.params # Null
             /\ \/ borrowPositions[1].priceUSD = 0
                \/ collateralPositions[1].priceUSD = 0

\* An evaluation whose errors reach the Promise.all.
ErrorEscapesUncaught(in) == EvaluationThrows(in)

\* `catch (error) { ...; return null; }` around the whole body of
\* checkLiquidationOpportunity: no error leaves the function.
ErrorEscapes(in) == FALSE

\* One evaluation resolves; pLimit starts the next queued one.  Were it to
\* reject, Promise.all would reject and the catch of monitorPositions would
\* end the cycle.
EvalDone(i, in) ==
    /\ pc = "eval"
    /\ i \in DOMAIN evals /\ evals[i] = "running"
    /\ IF ErrorEscapes(in)
       THEN /\ pc' = "sleep"
            /\ queue' = <<>>
            /\ cands' = <<>>
            /\ evals' = <<>>
            /\ opps' = opps
            /\ last' = [op |-> "evalDone", b |-> cands[i], opp |-> FALSE, threw |-> TRUE]
       ELSE LET r == checkLiquidationOpportunity(cands[i], in)
                ev == [evals EXCEPT ![i] = IF r = Null THEN "null" ELSE "opp"]
            IN /\ AwaitEvaluations(cands, Schedule(ev, isRunning))
               /\ opps' = IF r = Null THEN opps ELSE opps \cup {r}
               /\ last' = [op |-> "evalDone", b |-> cands[i], opp |-> r # Null,
                           threw |-> EvaluationThrows(in)]
    /\ overtook' = (overtook \/ \E j \in 1..(i - 1) : evals[j] \in {"queued", "running"})
    /\ UNCHANGED <<isRunning, gate, histPc, execs, liquidationCount, scan, taken,
                   totalProfit, liquidations,
                   shutdown>>

\* The Opportunity of this cycle for borrower b.
OpportunityOf(b) == CHOOSE o \in opps : o.borrower = b

\* One turn of `for (const opportunity of opportunities)`, up to the first
\* await of executeLiquidation.
SettleNext ==
    /\ pc = "settle"
    /\ SettleReady
    /\ IF queue = <<>> \/ ~isRunning
       THEN /\ pc' = "sleep"
            /\ queue' = <<>>
            /\ last' = [op |-> "cycleEnd"]
            /\ scan' = <<>>
            /\ taken' = <<>>
            /\ overtook' = FALSE
            /\ opps' = {}
            /\ UNCHANGED execs
       ELSE /\ execs' = execs \cup {[b |-> Head(queue), phase |-> "verify", fresh |-> NoRead,
                                     profit |-> OpportunityOf(Head(queue)).expectedProfit,
                                     sends |-> 0, gasLimit |-> 0]}
            /\ queue' = Tail(queue)
            /\ taken' = Append(taken, Head(queue))
            /\ last' = [op |-> "execute", b |-> Head(queue)]
            /\ UNCHANGED <<pc, scan, overtook, opps>>
    /\ UNCHANGED <<isRunning, gate, histPc, cands, evals, liquidationCount,
                   totalProfit, liquidations,
                   shutdown>>

\* executeLiquidation: the fresh getAccountLiquidity read of
\* verifyLiquidatable answers.
ExecVerify(e, read) ==
    /\ e \in execs /\ e.phase = "verify"
    /\ IF StillValid(read)
       THEN execs' = (execs \ {e}) \cup {[e EXCEPT !.phase = "gas", !.fresh = read]}
       ELSE execs' = execs \ {e}
    /\ last' = [op |-> "verify", b |-> e.b, read |-> read]
    /\ UNCHANGED <<isRunning, pc, gate, histPc, cands, evals, queue, liquidationCount,
                   scan, taken, overtook,
                   totalProfit, opps, liquidations,
                   shutdown>>

\* The call of verifyLiquidatable itself throws: the catch of
\* executeLiquidation reports the failure and returns false.
ExecVerifyThrows(e) ==
    /\ e \in execs /\ e.phase = "verify"
    /\ execs' = execs \ {e}
    /\ last' = [op |-> "verifyThrew", b |-> e.b, report |-> "failed"]
    /\ UNCHANGED <<isRunning, pc, gate, histPc, cands, evals, queue, liquidationCount,
                   scan, taken, overtook,
                   totalProfit, opps, liquidations,
                   shutdown>>

\* GAS_ESTIMATE_BUFFER_PERCENT (20 by default)
GAS_ESTIMATE_BUFFER_PERCENT == 20

\* What executeLiquidation.estimateGas answers: units of gas (counted in
\* units of 100000, as DEFAULT_GAS_LIMIT is), or a rejection.
GasEstimated(gas) == [ok |-> TRUE, gas |-> gas]

EstimateFailed == [ok |-> FALSE, gas |-> 0]

\* An estimate passed on without the buffer.
gasWithBufferNone(gasEstimate) == gasEstimate

\* `(gasEstimate * bufferMultiplier) / 100n`
gasWithBuffer(gasEstimate) ==
    (gasEstimate * (100 + GAS_ESTIMATE_BUFFER_PERCENT)) \div 100

\* estimateGasForLiquidation: the buffered estimate or, from the catch, the
\* default.
estimateGasForLiquidation(est) ==
    IF est.ok THEN gasWithBuffer(est.gas) ELSE DEFAULT_GAS_LIMIT

\* `const gasLimit = await estimateGasForLiquidation(opportunity)` resolves.
ExecGasEstimate(e, est) ==
    /\ e \in execs /\ e.phase = "gas"
    /\ execs' = (execs \ {e})
                   \cup {[e EXCEPT !.phase = "send",
                                   !.gasLimit = estimateGasForLiquidation(est)]}
    /\ last' = [op |-> "estimateGas", b |-> e.b, fresh |-> e.fresh, ok |-> est.ok,
                est |-> est]
    /\ UNCHANGED <<isRunning, pc, gate, histPc, cands, evals, queue, liquidationCount,
                   scan, taken, overtook,
                   totalProfit, opps, liquidations,
                   shutdown>>

\* The estimate of a liquidation of one market's debt against one market's
\* collateral.
TypicalGasEstimate == 5

\* estimateGasForLiquidation: the estimate or, when it fails, the default.
ExecGas(e, ok) ==
    ExecGasEstimate(e, IF ok THEN GasEstimated(TypicalGasEstimate) ELSE EstimateFailed)

\* liquidationContract.executeLiquidation(...): the transaction is sent, or
\* the call throws into the catch.
ExecSend(e, ok) ==
    /\ e \in execs /\ e.phase = "send"
    /\ IF ok
       THEN execs' = (execs \ {e}) \cup {[e EXCEPT !.phase = "wait", !.sends = @ + 1]}
       ELSE execs' = execs \ {e}
    /\ last' = [op |-> "send", b |-> e.b, fresh |-> e.fresh, ok |-> ok,
                sends |-> e.sends + 1, report |-> IF ok THEN "sent" ELSE "failed",
                gasLimit |-> e.gasLimit]
    /\ UNCHANGED <<isRunning, pc, gate, histPc, cands, evals, queue, liquidationCount,
                   scan, taken, overtook,
                   totalProfit, opps, liquidations,
                   shutdown>>

\* What executeLiquidation logs and sends to the operator after tx.wait():
\* the success message, the catch's "Liquidation failed" message, or, for a
\* receipt whose status is not 1, nothing.
Report(outcome) ==
    IF outcome = "success" THEN "success"
    ELSE IF outcome = "throw" THEN "failed"
    ELSE "none"

\* A success branch taken whatever the receipt says.
ReceiptOkAlways(outcome) == TRUE

\* `if (receipt.status === 1)`
ReceiptOk(outcome) == outcome = "success"

\* An insert that overwrites the row of a transaction already recorded.
recordLiquidationReplace(table, txHash, row, inserted) ==
    IF ~dbEnabled \/ ~inserted THEN table
    ELSE [h \in DOMAIN table \cup {txHash} |-> IF h = txHash THEN row ELSE table[h]]

\* BorrowerDatabase.recordLiquidation: INSERT ... ON CONFLICT(tx_hash) DO
\* NOTHING; nothing without a database, and an insert that throws is logged
\* and dropped (`inserted` false).
recordLiquidation(table, txHash, row, inserted) ==
    IF ~dbEnabled \/ ~inserted THEN table
    ELSE IF txHash \in DOMAIN table THEN table
    ELSE table @@ (txHash :> row)

\* tx.wait(): a receipt with status 1, a receipt with another status (the
\* function falls off its end), or a rejection.  After a success the loop
\* waits five seconds.  Distinct transactions have distinct hashes: the hash
\* of the n-th successful one is n.
ExecWait(e, outcome, inserted) ==
    /\ e \in execs /\ e.phase = "wait"
    /\ outcome = "success" => liquidationCount < MaxLiquidations
    /\ execs' = execs \ {e}
    /\ IF ReceiptOk(outcome)
       THEN /\ liquidationCount' = liquidationCount + 1
            /\ totalProfit' = totalProfit + e.profit
            /\ liquidations' =
                  recordLiquidation(liquidations, liquidationCount + 1,
                                    [borrower |-> e.b, profit |-> e.profit], inserted)
            /\ pc' = "cooldown"
       ELSE UNCHANGED <<liquidationCount, totalProfit, liquidations, pc>>
    /\ last' = [op |-> "wait", b |-> e.b, outcome |-> outcome, sends |-> e.sends,
                profit |-> e.profit, inserted |-> inserted,
                report |-> Report(outcome)]
    /\ UNCHANGED <<isRunning, gate, histPc, cands, evals, queue,
                   scan, taken, overtook, opps,
                   shutdown>>

\* db.recordLiquidation(txHash, ...) called on the database directly, as
\* the tests do.
RecordLiquidation(txHash, row, inserted) ==
    /\ liquidations' = recordLiquidation(liquidations, txHash, row, inserted)
    /\ last' = [op |-> "record", txHash |-> txHash, row |-> row, inserted |-> inserted]
    /\ UNCHANGED <<isRunning, pc, gate, histPc, cands, evals, queue, execs,
                   liquidationCount, scan, taken, overtook, totalProfit, opps, shutdown>>

\* BorrowerDatabase.getLiquidationCount: SELECT COUNT(*) FROM liquidations,
\* 0 without a database.
getLiquidationCount(table) == IF dbEnabled THEN Cardinality(DOMAIN table) ELSE 0

\* setTimeout(resolve, 5000) fires.
CooldownDone ==
    /\ pc = "cooldown"
    /\ pc' = "settle"
    /\ last' = [op |-> "cooldownDone"]
    /\ UNCHANGED <<isRunning, gate, histPc, cands, evals, queue, execs, liquidationCount,
                   scan, taken, overtook,
                   totalProfit, opps, liquidations,
                   shutdown>>

\* process.on('SIGINT'): stopListening and borrowerDB.close(), then
\* process.exit(0) at once, or after `await wsProvider.destroy()` when a
\* WebSocket provider was configured (`ws`).  The handler does not touch
\* isRunning.
SigInt(ws) ==
    /\ Alive /\ shutdown = "no"
    /\ dbEnabled' = FALSE
    /\ IF ws
       THEN shutdown' = "closing" /\ pc' = pc
       ELSE shutdown' = "exit" /\ pc' = "exit"
    /\ last' = [op |-> "sigint", ws |-> ws]
    /\ UNCHANGED <<activeBorrowers, repayLocks, repayReads, lockTimers, dbStatus,
                   prunePc, pruneSnap, bal, windowReads, windowEvicts>>
    /\ UNCHANGED <<isRunning, gate, histPc, cands, evals, queue, execs, liquidationCount,
                   scan, taken, overtook, totalProfit, opps, liquidations>>

\* wsProvider.destroy() has resolved: process.exit(0).
SigIntExit ==
    /\ Alive /\ shutdown = "closing"
    /\ pc' = "exit"
    /\ last' = [op |-> "sigintExit"]
    /\ UNCHANGED <<isRunning, gate, histPc, cands, evals, queue, execs, liquidationCount,
                   scan, taken, overtook, totalProfit, opps, liquidations, shutdown>>

---------------------------------------------------------------------------
\* helpers/rpcManager.js: the endpoints of RPC_URLS, the index of the current
\* one, the health record of each and the provider bound to one of them.
\* Array indices start at 0, as in the source.  Of a health record the model
\* keeps the fields the functions read: consecutiveFailures and
\* avgResponseTime (whole milliseconds).

\* RPC_URLS after filter(Boolean): three endpoints are configured.
RPC_URLS == <<"BSC_RPC_QUICKNODE", "BSC_RPC_NODEREAL", "BSC_RPC_ANKR">>

Endpoints == 0..(Len(RPC_URLS) - 1)

\* MAX_CONSECUTIVE_FAILURES
MAX_CONSECUTIVE_FAILURES == 3

\* Failures counted per endpoint in one run of the model.
MaxFailures == 4

\* Response times the connectivity check may take, in milliseconds.
ResponseTimes == {0, 20, 25}

\* No getProvider call is in flight.  A call in flight remembers the endpoint
\* whose getBlockNumber it awaits (`checking`) and the endpoints it has
\* checked so far (`tested`).
Idle == [pc |-> "idle", checking |-> 0, tested |-> {}]

InitRpc ==
    /\ currentIndex = 0
    /\ provider = 0
    /\ rpcHealth = [i \in Endpoints |-> [consecutiveFailures |-> 0, avgResponseTime |-> 0]]
    /\ rpcCall = Idle
    /\ reachable = Endpoints

\* getNextHealthyIndex: the next endpoint after `cur`, in cyclic order, with
\* fewer than MAX_CONSECUTIVE_FAILURES consecutive failures; when there is
\* none, every counter is reset and the index is 0.  `attempts` counts the
\* endpoints skipped.
RECURSIVE getNextHealthyIndex(_, _, _)
getNextHealthyIndex(cur, health, attempts) ==
    IF attempts < Len(RPC_URLS)
    THEN LET next == (cur + 1) % Len(RPC_URLS)
         IN IF health[next].consecutiveFailures < MAX_CONSECUTIVE_FAILURES
            THEN [index |-> next, health |-> health]
            ELSE getNextHealthyIndex(next, health, attempts + 1)
    ELSE [index |-> 0,
          health |-> [i \in Endpoints |-> [health[i] EXCEPT !.consecutiveFailures = 0]]]

\* markFailure(index)
markFailure(health, index) ==
    [health EXCEPT ![index].consecutiveFailures = @ + 1]

\* markSuccess(index, responseTime): the first sample is taken as it is,
\* later ones enter a moving average.
markSuccess(health, index, responseTime) ==
    [health EXCEPT ![index] =
        [consecutiveFailures |-> 0,
         avgResponseTime |->
            IF responseTime > 0
            THEN (IF @.avgResponseTime = 0 THEN responseTime
                  ELSE (@.avgResponseTime * 9 + responseTime) \div 10)
            ELSE @.avgResponseTime]]

\* The response times for which avgResponseTime * 0.9 + responseTime * 0.1 is
\* a whole number of milliseconds, so that the division above is exact.
WholeAverage(avg, responseTime) ==
    avg = 0 \/ responseTime = 0 \/ (avg * 9 + responseTime) % 10 = 0

\* getProvider up to `await Promise.race([provider.getBlockNumber(), ...])`;
\* `rotate` is what shouldRotate() returns, and rotateProvider replaces the
\* provider when the index changed.
GetProviderStart(rotate) ==
    /\ rpcCall.pc = "idle"
    /\ \A i \in Endpoints : rpcHealth[i].consecutiveFailures < MaxFailures
    /\ IF rotate
       THEN LET r == getNextHealthyIndex(currentIndex, rpcHealth, 0)
            IN /\ currentIndex' = r.index
               /\ rpcHealth' = r.health
               /\ provider' = IF r.index # currentIndex THEN r.index ELSE provider
       ELSE UNCHANGED <<currentIndex, rpcHealth, provider>>
    /\ rpcCall' = [pc |-> "first", checking |-> provider', tested |-> {}]
    /\ last' = [op |-> "getProviderStart", rotate |-> rotate]
    /\ UNCHANGED <<reachable, exceptRpc>>

\* The first connectivity check settles (a timeout rejects it as well).  On
\* success the provider is returned; on failure the call switches to the next
\* healthy endpoint and awaits `provider.getBlockNumber()` on it.
GetProviderFirst(responseTime) ==
    /\ rpcCall.pc = "first"
    /\ WholeAverage(rpcHealth[currentIndex].avgResponseTime, responseTime)
    /\ IF rpcCall.checking \in reachable
       THEN /\ rpcHealth' = markSuccess(rpcHealth, currentIndex, responseTime)
            /\ rpcCall' = Idle
            /\ last' = [op |-> "getProvider", threw |-> FALSE, provider |-> provider,
                        tested |-> {rpcCall.checking}, up |-> reachable]
            /\ UNCHANGED <<currentIndex, provider>>
       ELSE LET r == getNextHealthyIndex(currentIndex,
                                         markFailure(rpcHealth, currentIndex), 0)
            IN /\ currentIndex' = r.index
               /\ rpcHealth' = r.health
               /\ provider' = r.index
               /\ rpcCall' = [pc |-> "backup", checking |-> r.index,
                              tested |-> {rpcCall.checking}]
               /\ last' = [op |-> "getProviderSwitch", from |-> rpcCall.checking,
                           to |-> r.index]
    /\ UNCHANGED <<reachable, exceptRpc>>

\* The check of the backup endpoint settles: the provider is returned, or
\* the call throws 'All RPCs failing'.
GetProviderBackup ==
    /\ rpcCall.pc = "backup"
    /\ IF rpcCall.checking \in reachable
       THEN /\ rpcHealth' = markSuccess(rpcHealth, currentIndex, 0)
            /\ last' = [op |-> "getProvider", threw |-> FALSE, provider |-> provider,
                        tested |-> rpcCall.tested \cup {rpcCall.checking},
                        up |-> reachable]
       ELSE /\ rpcHealth' = markFailure(rpcHealth, currentIndex)
            /\ last' = [op |-> "getProvider", threw |-> TRUE, provider |-> provider,
                        tested |-> rpcCall.tested \cup {rpcCall.checking},
                        up |-> reachable]
    /\ rpcCall' = Idle
    /\ UNCHANGED <<currentIndex, provider, reachable, exceptRpc>>

\* rpcHealth.filter(h => h.avgResponseTime > 0): the records with data, in
\* the order of the endpoints.
rpcsWithData(health) ==
    SelectSeq([k \in 1..Len(RPC_URLS) |-> health[k - 1]],
              LAMBDA h : h.avgResponseTime > 0)

\* rpcsWithData.reduce((best, current, idx) => current.avgResponseTime <
\* rpcHealth[best].avgResponseTime ? idx : best, 0): idx is the position of
\* `current` in rpcsWithData, and rpcHealth[best] is read from the full list.
RECURSIVE reduceFastest(_, _, _, _)
reduceFastest(withData, health, idx, best) ==
    IF idx >= Len(withData) THEN best
    ELSE reduceFastest(withData, health, idx + 1,
            IF withData[idx + 1].avgResponseTime < health[best].avgResponseTime
            THEN idx ELSE best)

\* getFastestRPC
getFastestRPC(health, cur) ==
    IF Len(rpcsWithData(health)) = 0 THEN cur
    ELSE reduceFastest(rpcsWithData(health), health, 0, 0)

\* switchToFastest; it contains no await.
SwitchToFastest ==
    /\ LET fastestIndex == getFastestRPC(rpcHealth, currentIndex)
       IN /\ IF fastestIndex # currentIndex
             THEN currentIndex' = fastestIndex /\ provider' = fastestIndex
             ELSE UNCHANGED <<currentIndex, provider>>
          /\ last' = [op |-> "switchToFastest", fastest |-> fastestIndex,
                      before |-> currentIndex]
    /\ UNCHANGED <<rpcHealth, rpcCall, reachable, exceptRpc>>

\* Endpoints go down and come back while no call is in flight.
Reachability(up) ==
    /\ rpcCall.pc = "idle"
    /\ reachable' = up
    /\ last' = [op |-> "reachability"]
    /\ UNCHANGED <<currentIndex, provider, rpcHealth, rpcCall, exceptRpc>>

---------------------------------------------------------------------------
InitBot ==
    /\ isRunning = TRUE
    /\ pc = "boot"
    /\ gate = "none"
    /\ histPc = 0
    /\ cands = <<>>
    /\ evals = <<>>
    /\ queue = <<>>
    /\ execs = {}
    /\ liquidationCount = 0
    /\ scan = <<>>
    /\ taken = <<>>
    /\ overtook = FALSE
    /\ totalProfit = 0
    /\ opps = {}
    /\ liquidations = <<>>
    /\ shutdown = "no"
    /\ lastPruningTs = 0
    /\ now = 0
    /\ clock = BORROWER_PRUNING_INTERVAL_MS + 1
    /\ isListening = FALSE
    /\ eventListeners = <<>>
    /\ subscriptions = {}
    /\ contracts = 0
    /\ InitRpc

---------------------------------------------------------------------------
\* Specifications

InitMonitor ==
    /\ activeBorrowers = {}
    /\ repayLocks = {}
    /\ repayReads = {}
    /\ lockTimers = [b \in Borrowers |-> 0]
    /\ dbEnabled \in BOOLEAN
    /\ dbStatus = [b \in Borrowers |-> "absent"]
    /\ prunePc = "idle"
    /\ pruneSnap = {}
    /\ bal = [b \in Borrowers |-> [m \in Markets |-> 0]]
    /\ windowReads = [b \in Borrowers |-> 0]
    /\ windowEvicts = [b \in Borrowers |-> 0]
    /\ last = [op |-> "init"]
    /\ InitBreaker
    /\ InitProfitIdle
    /\ InitBot

\* The push subscription: Borrow and RepayBorrow handlers, the lock timers
\* and the ledger.
NextMonitor ==
    \/ \E b \in Borrowers : BorrowEvent(b) /\ UNCHANGED exceptMonitor
    \/ \E b \in Borrowers, m \in Markets, c \in Balances :
          RepayEvent(b, m, c) /\ UNCHANGED exceptMonitor
    \/ RepayVerify /\ UNCHANGED exceptMonitor
    \/ \E b \in Borrowers : LockTimerFire(b) /\ UNCHANGED exceptMonitor
    \/ \E b \in Borrowers, m \in Markets, v \in Balances :
          LedgerChange(b, m, v) /\ UNCHANGED exceptMonitor

SpecMonitor == InitMonitor /\ [][NextMonitor]_vars

\* The pruner against Borrow events and the ledger.
NextPruner ==
    \/ \E b \in Borrowers : BorrowEvent(b) /\ UNCHANGED exceptMonitor
    \/ \E b \in Borrowers, m \in Markets, v \in Balances :
          LedgerChange(b, m, v) /\ UNCHANGED exceptMonitor
    \/ PruneStart /\ UNCHANGED exceptMonitor
    \/ PruneAnswer /\ UNCHANGED exceptMonitor
    \/ PruneBatchError /\ UNCHANGED exceptMonitor

SpecPruner == InitMonitor /\ [][NextPruner]_vars

\* The circuit breaker: startup, price checks called one at a time, and the
\* operator's reset, with the oracle answering any price or failing.
NextBreaker ==
    \/ BootInitialize /\ UNCHANGED exceptBreaker
    \/ \E res \in OracleAnswers : InitRead(res) /\ UNCHANGED exceptBreaker
    \/ ResetStart /\ UNCHANGED exceptBreaker
    \/ CheckStart /\ UNCHANGED exceptBreaker
    \/ \E res \in OracleAnswers : CheckRead(res) /\ UNCHANGED exceptBreaker

SpecBreaker == InitMonitor /\ [][NextBreaker]_vars

InitEvaluation ==
    /\ activeBorrowers = {}
    /\ repayLocks = {}
    /\ repayReads = {}
    /\ lockTimers = [b \in Borrowers |-> 0]
    /\ dbEnabled = FALSE
    /\ dbStatus = [b \in Borrowers |-> "absent"]
    /\ prunePc = "idle"
    /\ pruneSnap = {}
    /\ bal = [b \in Borrowers |-> [m \in Markets |-> 0]]
    /\ windowReads = [b \in Borrowers |-> 0]
    /\ windowEvicts = [b \in Borrowers |-> 0]
    /\ last = [op |-> "init"]
    /\ InitBreaker
    /\ InitProfit
    /\ InitBot

NextProfit ==
    \E b \in Borrowers : Evaluate(b) /\ UNCHANGED exceptProfit

SpecProfit == InitEvaluation /\ [][NextProfit]_vars

\* Oracle answers in the loop: a price or a failed read (price moves are
\* exercised on the breaker alone).
LoopOracleAnswers == {ReadOk(100), ReadFailed}

\* Borrowers an event query may find.
FoundSets == SUBSET Borrowers

\* Candidate lists the legacy query may produce.
LegacyOrders == UNION {Orders(S) : S \in SUBSET Borrowers}

InitLoop ==
    /\ activeBorrowers = {}
    /\ repayLocks = {}
    /\ repayReads = {}
    /\ lockTimers = [b \in Borrowers |-> 0]
    /\ dbEnabled = FALSE
    /\ dbStatus = [b \in Borrowers |-> "absent"]
    /\ prunePc = "idle"
    /\ pruneSnap = {}
    /\ bal = [b \in Borrowers |-> [m \in Markets |->
                IF b = "b1" /\ m = "vBNB" THEN 1 ELSE 0]]
    /\ windowReads = [b \in Borrowers |-> 0]
    /\ windowEvicts = [b \in Borrowers |-> 0]
    /\ last = [op |-> "init"]
    /\ InitBreaker
    /\ InitProfitIdle
    /\ InitBot

NextBot ==
    \/ BootInitialize /\ UNCHANGED exceptBreaker
    \/ \E res \in LoopOracleAnswers : InitRead(res) /\ ~LoopBusy /\ UNCHANGED exceptBreaker
    \/ ResetStart /\ Alive /\ ~LoopBusy /\ UNCHANGED exceptBreaker
    \/ CmdStart /\ UNCHANGED <<monitorVars, breakerVars, profitVars, restVars>>
    \/ CmdStop /\ UNCHANGED <<monitorVars, breakerVars, profitVars, restVars>>
    \/ \E b \in Borrowers :
          BorrowEvent(b) /\ pc \notin {"boot", "exit"} /\ ~LoopBusy /\ UNCHANGED exceptMonitor
    \/ \E ok \in BOOLEAN : StartupSeed(ok) /\ UNCHANGED <<breakerVars, profitVars, restVars>>
    \/ \E ok \in BOOLEAN, found \in FoundSets :
          HistQuery(ok, found) /\ UNCHANGED <<breakerVars, profitVars, restVars>>
    \/ LoopTop /\ UNCHANGED <<monitorVars, profitVars, restVars>>
    \/ \E res \in LoopOracleAnswers : CycleCheck(res) /\ UNCHANGED <<monitorVars, profitVars, restVars>>
    \/ \E due \in BOOLEAN : CyclePrune(due) /\ UNCHANGED <<breakerVars, profitVars, restVars>>
    \/ \E failed \in BOOLEAN, out \in [pruneSnap -> [Markets -> {"ok", "fail"}]] :
          CyclePruned(failed, out) /\ UNCHANGED <<breakerVars, profitVars, restVars>>
    \/ \E due \in BOOLEAN : CycleCatch(due) /\ UNCHANGED <<monitorVars, breakerVars, profitVars, restVars>>
    \/ \E ok \in BOOLEAN : CatchBlock(ok) /\ UNCHANGED <<monitorVars, breakerVars, profitVars, restVars>>
    \/ CycleList /\ UNCHANGED <<monitorVars, breakerVars, profitVars, restVars>>
    \/ \E ok \in BOOLEAN, order \in LegacyOrders :
          LegacyFetch(ok, order) /\ UNCHANGED <<monitorVars, breakerVars, profitVars, restVars>>
    \/ \E i \in 1..Cardinality(Borrowers), in \in Scenarios :
          EvalDone(i, in) /\ UNCHANGED <<monitorVars, breakerVars, profitVars, restVars>>
    \/ SettleNext /\ UNCHANGED <<monitorVars, breakerVars, profitVars, restVars>>
    \/ \E e \in execs, read \in AccountReads :
          ExecVerify(e, read) /\ UNCHANGED <<monitorVars, breakerVars, profitVars, restVars>>
    \/ \E e \in execs : ExecVerifyThrows(e) /\ UNCHANGED <<monitorVars, breakerVars, profitVars, restVars>>
    \/ \E e \in execs, ok \in BOOLEAN :
          ExecGas(e, ok) /\ UNCHANGED <<monitorVars, breakerVars, profitVars, restVars>>
    \/ \E e \in execs, ok \in BOOLEAN :
          ExecSend(e, ok) /\ UNCHANGED <<monitorVars, breakerVars, profitVars, restVars>>
    \/ \E e \in execs, outcome \in {"success", "status0", "throw"}, inserted \in BOOLEAN :
          ExecWait(e, outcome, inserted) /\ UNCHANGED <<monitorVars, breakerVars, profitVars, restVars>>
    \/ CooldownDone /\ UNCHANGED <<monitorVars, breakerVars, profitVars, restVars>>

SpecBot == InitLoop /\ [][NextBot]_vars

\* The loop in a quiet environment: every read answers, nothing trips, no
\* operator command arrives, no pruning or catch is due; the database is
\* configured or not.
InitSettle ==
    /\ activeBorrowers = {}
    /\ repayLocks = {}
    /\ repayReads = {}
    /\ lockTimers = [b \in Borrowers |-> 0]
    /\ dbEnabled \in BOOLEAN
    /\ dbStatus = [b \in Borrowers |-> "absent"]
    /\ prunePc = "idle"
    /\ pruneSnap = {}
    /\ bal = [b \in Borrowers |-> [m \in Markets |->
                IF b = "b1" /\ m = "vBNB" THEN 1 ELSE 0]]
    /\ windowReads = [b \in Borrowers |-> 0]
    /\ windowEvicts = [b \in Borrowers |-> 0]
    /\ last = [op |-> "init"]
    /\ InitBreaker
    /\ InitProfitIdle
    /\ InitBot

NextSettle ==
    \/ BootInitialize /\ UNCHANGED exceptBreaker
    \/ InitRead(ReadOk(100)) /\ UNCHANGED exceptBreaker
    \/ StartupSeed(TRUE) /\ UNCHANGED <<breakerVars, profitVars, restVars>>
    \/ \E found \in {{}, Borrowers} :
          HistQuery(TRUE, found) /\ UNCHANGED <<breakerVars, profitVars, restVars>>
    \/ LoopTop /\ UNCHANGED <<monitorVars, profitVars, restVars>>
    \/ CycleCheck(ReadOk(100)) /\ UNCHANGED <<monitorVars, profitVars, restVars>>
    \/ CyclePrune(FALSE) /\ UNCHANGED <<breakerVars, profitVars, restVars>>
    \/ CycleCatch(FALSE) /\ UNCHANGED <<monitorVars, breakerVars, profitVars, restVars>>
    \/ CycleList /\ UNCHANGED <<monitorVars, breakerVars, profitVars, restVars>>
    \/ \E order \in LegacyOrders :
          LegacyFetch(TRUE, order) /\ UNCHANGED <<monitorVars, breakerVars, profitVars, restVars>>
    \/ \E i \in 1..Cardinality(Borrowers), in \in Scenarios :
          EvalDone(i, in) /\ UNCHANGED <<monitorVars, breakerVars, profitVars, restVars>>
    \/ SettleNext /\ UNCHANGED <<monitorVars, breakerVars, profitVars, restVars>>
    \/ \E e \in execs, read \in AccountReads :
          ExecVerify(e, read) /\ UNCHANGED <<monitorVars, breakerVars, profitVars, restVars>>
    \/ \E e \in execs : ExecVerifyThrows(e) /\ UNCHANGED <<monitorVars, breakerVars, profitVars, restVars>>
    \/ \E e \in execs, ok \in BOOLEAN :
          ExecGas(e, ok) /\ UNCHANGED <<monitorVars, breakerVars, profitVars, restVars>>
    \/ \E e \in execs, ok \in BOOLEAN :
          ExecSend(e, ok) /\ UNCHANGED <<monitorVars, breakerVars, profitVars, restVars>>
    \/ \E e \in execs, outcome \in {"success", "status0", "throw"}, inserted \in BOOLEAN :
          ExecWait(e, outcome, inserted) /\ UNCHANGED <<monitorVars, breakerVars, profitVars, restVars>>
    \/ CooldownDone /\ UNCHANGED <<monitorVars, breakerVars, profitVars, restVars>>

SpecSettle == InitSettle /\ [][NextSettle]_vars

\* The evaluations of a cycle over a snapshot larger than the pool: the
\* legacy query supplies up to MaxCandidates borrowers, none of them
\* liquidatable, and the operator may stop and start the bot.
MaxCandidates == 7

ScanAddresses ==
    <<"a1", "a2", "a3", "a4", "a5", "a6", "a7", "a8", "a9", "a10", "a11", "a12", "a13",
      "a14", "a15", "a16", "a17", "a18", "a19", "a20", "a21", "a22", "a23", "a24", "a25",
      "a26">>

PoolOrders == {SubSeq(ScanAddresses, 1, n) : n \in 0..Min(MaxCandidates, Len(ScanAddresses))}

PoolScenarios == {in \in Scenarios : in.account.shortfall = 0}

NextPool ==
    \/ BootInitialize /\ UNCHANGED exceptBreaker
    \/ InitRead(ReadOk(100)) /\ UNCHANGED exceptBreaker
    \/ CmdStart /\ UNCHANGED <<monitorVars, breakerVars, profitVars, restVars>>
    \/ CmdStop /\ UNCHANGED <<monitorVars, breakerVars, profitVars, restVars>>
    \/ StartupSeed(TRUE) /\ UNCHANGED <<breakerVars, profitVars, restVars>>
    \/ HistQuery(TRUE, {}) /\ UNCHANGED <<breakerVars, profitVars, restVars>>
    \/ LoopTop /\ UNCHANGED <<monitorVars, profitVars, restVars>>
    \/ CycleCheck(ReadOk(100)) /\ UNCHANGED <<monitorVars, profitVars, restVars>>
    \/ CyclePrune(FALSE) /\ UNCHANGED <<breakerVars, profitVars, restVars>>
    \/ CycleCatch(FALSE) /\ UNCHANGED <<monitorVars, breakerVars, profitVars, restVars>>
    \/ CycleList /\ UNCHANGED <<monitorVars, breakerVars, profitVars, restVars>>
    \/ \E order \in PoolOrders :
          LegacyFetch(TRUE, order) /\ UNCHANGED <<monitorVars, breakerVars, profitVars, restVars>>
    \/ \E i \in 1..MaxCandidates, in \in PoolScenarios :
          EvalDone(i, in) /\ UNCHANGED <<monitorVars, breakerVars, profitVars, restVars>>
    \/ SettleNext /\ UNCHANGED <<monitorVars, breakerVars, profitVars, restVars>>

SpecPool == InitLoop /\ [][NextPool]_vars

\* The quiet loop with an operator: /stop and /start at any time, and a
\* SIGINT once the loop runs.  Nothing runs after process.exit.
NextStop ==
    \/ BootInitialize /\ UNCHANGED exceptBreaker
    \/ InitRead(ReadOk(100)) /\ UNCHANGED exceptBreaker
    \/ Alive /\ CmdStart /\ UNCHANGED <<monitorVars, breakerVars, profitVars, restVars>>
    \/ Alive /\ CmdStop /\ UNCHANGED <<monitorVars, breakerVars, profitVars, restVars>>
    \/ \E ws \in BOOLEAN :
          SigInt(ws) /\ pc \notin {"boot", "seed"} /\ UNCHANGED <<breakerVars, profitVars, restVars>>
    \/ SigIntExit /\ UNCHANGED <<monitorVars, breakerVars, profitVars, restVars>>
    \/ StartupSeed(TRUE) /\ UNCHANGED <<breakerVars, profitVars, restVars>>
    \/ HistQuery(TRUE, Borrowers) /\ UNCHANGED <<breakerVars, profitVars, restVars>>
    \/ LoopTop /\ UNCHANGED <<monitorVars, profitVars, restVars>>
    \/ CycleCheck(ReadOk(100)) /\ UNCHANGED <<monitorVars, profitVars, restVars>>
    \/ CyclePrune(FALSE) /\ UNCHANGED <<breakerVars, profitVars, restVars>>
    \/ CycleCatch(FALSE) /\ UNCHANGED <<monitorVars, breakerVars, profitVars, restVars>>
    \/ CycleList /\ UNCHANGED <<monitorVars, breakerVars, profitVars, restVars>>
    \/ \E i \in 1..Cardinality(Borrowers), in \in Scenarios :
          EvalDone(i, in) /\ UNCHANGED <<monitorVars, breakerVars, profitVars, restVars>>
    \/ SettleNext /\ UNCHANGED <<monitorVars, breakerVars, profitVars, restVars>>
    \/ \E e \in execs, read \in AccountReads :
          Alive /\ ExecVerify(e, read) /\ UNCHANGED <<monitorVars, breakerVars, profitVars, restVars>>
    \/ \E e \in execs :
          Alive /\ ExecVerifyThrows(e) /\ UNCHANGED <<monitorVars, breakerVars, profitVars, restVars>>
    \/ \E e \in execs, ok \in BOOLEAN :
          Alive /\ ExecGas(e, ok) /\ UNCHANGED <<monitorVars, breakerVars, profitVars, restVars>>
    \/ \E e \in execs, ok \in BOOLEAN :
          Alive /\ ExecSend(e, ok) /\ UNCHANGED <<monitorVars, breakerVars, profitVars, restVars>>
    \/ \E e \in execs, outcome \in {"success", "status0", "throw"}, inserted \in BOOLEAN :
          Alive /\ ExecWait(e, outcome, inserted)
                /\ UNCHANGED <<monitorVars, breakerVars, profitVars, restVars>>
    \/ CooldownDone /\ UNCHANGED <<monitorVars, breakerVars, profitVars, restVars>>

SpecStop == InitSettle /\ [][NextStop]_vars

\* The monitor with its handlers and with callers of addBorrower,
\* removeBorrower and clear; debts are opened and repaid on one market.
NextRegistry ==
    \/ \E b \in Borrowers : BorrowEvent(b) /\ UNCHANGED exceptMonitor
    \/ \E b \in Borrowers : RepayEvent(b, "vBNB", 0) /\ UNCHANGED exceptMonitor
    \/ RepayVerify /\ UNCHANGED exceptMonitor
    \/ \E b \in Borrowers : LockTimerFire(b) /\ UNCHANGED exceptMonitor
    \/ \E b \in Borrowers, v \in Balances :
          LedgerChange(b, "vBNB", v) /\ UNCHANGED exceptMonitor
    \/ \E b \in Borrowers : AddBorrower(b) /\ UNCHANGED exceptMonitor
    \/ \E b \in Borrowers : RemoveBorrower(b) /\ UNCHANGED exceptMonitor
    \/ Clear /\ UNCHANGED exceptMonitor

SpecRegistry == InitMonitor /\ [][NextRegistry]_vars

\* The quiet loop with the database, pruning and the periodic historical
\* catch: debts are repaid on the ledger, every multicall read answers, and
\* the event queries return any of the Borrow events of their block range.
NextBackfill ==
    \/ BootInitialize /\ UNCHANGED exceptBreaker
    \/ InitRead(ReadOk(100)) /\ UNCHANGED exceptBreaker
    \/ \E b \in Borrowers, v \in Balances :
          LedgerChange(b, "vBNB", v) /\ pc = "sleep" /\ UNCHANGED exceptMonitor
    \/ StartupSeed(TRUE) /\ UNCHANGED <<breakerVars, profitVars, restVars>>
    \/ \E ok \in BOOLEAN, found \in FoundSets :
          HistQuery(ok, found) /\ UNCHANGED <<breakerVars, profitVars, restVars>>
    \/ LoopTop /\ UNCHANGED <<monitorVars, profitVars, restVars>>
    \/ CycleCheck(ReadOk(100)) /\ UNCHANGED <<monitorVars, profitVars, restVars>>
    \/ \E due \in BOOLEAN : CyclePrune(due) /\ UNCHANGED <<breakerVars, profitVars, restVars>>
    \/ CyclePruned(FALSE, [b \in pruneSnap |-> [m \in Markets |-> "ok"]])
          /\ UNCHANGED <<breakerVars, profitVars, restVars>>
    \/ \E due \in BOOLEAN : CycleCatch(due) /\ UNCHANGED <<monitorVars, breakerVars, profitVars, restVars>>
    \/ \E ok \in BOOLEAN : CatchBlock(ok) /\ UNCHANGED <<monitorVars, breakerVars, profitVars, restVars>>
    \/ CycleList /\ UNCHANGED <<monitorVars, breakerVars, profitVars, restVars>>
    \/ \E order \in LegacyOrders :
          LegacyFetch(TRUE, order) /\ UNCHANGED <<monitorVars, breakerVars, profitVars, restVars>>
    \/ \E i \in 1..Cardinality(Borrowers), in \in PoolScenarios :
          EvalDone(i, in) /\ UNCHANGED <<monitorVars, breakerVars, profitVars, restVars>>
    \/ SettleNext /\ UNCHANGED <<monitorVars, breakerVars, profitVars, restVars>>

SpecBackfill == InitSettle /\ [][NextBackfill]_vars

\* The liquidation history under direct calls of recordLiquidation with any
\* of MaxTx transaction hashes and any field values.
MaxTx == 3

TxHashes == 1..MaxTx

LiquidationRows == [borrower : Borrowers, profit : {0, 26}]

NextHistory ==
    \E txHash \in TxHashes, row \in LiquidationRows, inserted \in BOOLEAN :
        RecordLiquidation(txHash, row, inserted)
           /\ UNCHANGED <<monitorVars, breakerVars, profitVars, restVars>>

SpecHistory == InitSettle /\ [][NextHistory]_vars

---------------------------------------------------------------------------
\* Claims about the event monitor

\* C1 (verify-before-evict): a RepayBorrow handler that finishes removes its
\* borrower from the active set, and sets the borrower's row of the store to
\* zero-balance, exactly when its own borrowBalanceStored read returned zero,
\* whatever accountBorrows value the event carried; when the read returned
\* nonzero or failed, the handler leaves the active set and the store as
\* they were.
C1_VerifyBeforeEvict ==
    [][last'.op = "repayDone" =>
          LET b == last'.b
              zero == last'.res.ok /\ last'.res.val = 0
          IN /\ zero => /\ b \notin activeBorrowers'
                        /\ (dbEnabled /\ dbStatus[b] # "absent") => dbStatus'[b] = "zero"
             /\ ~zero => /\ activeBorrowers' = activeBorrowers
                         /\ dbStatus' = dbStatus]_vars

\* A repay event claiming zero remaining balance, an authoritative read that
\* returned nonzero, and the borrower still tracked.
C1_Witness ==
    /\ last.op = "repayDone"
    /\ last.claimed = 0
    /\ last.res.ok /\ last.res.val > 0
    /\ last.b \in activeBorrowers

\* C2 (concurrent repay safety): per borrower, at most one verification read is
\* in flight; between the acquisition of the borrower's lock and its release
\* by the timer at most one read is issued and at most one eviction is made;
\* and the lock is held as long as a read is in flight or the timer pending.
C2_OneVerificationPerWindow ==
    \A b \in Borrowers :
        /\ Cardinality({h \in repayReads : h.b = b}) + lockTimers[b] <= 1
        /\ windowReads[b] <= 1
        /\ windowEvicts[b] <= 1
        /\ ({h \in repayReads : h.b = b} # {} \/ lockTimers[b] > 0) => b \in repayLocks

\* A second repay event for a borrower arrives while the first handler's read
\* is still in flight, and is dropped.
C2_Witness ==
    /\ last.op = "repaySkipped"
    /\ \E h \in repayReads : h.b = last.b
    /\ windowReads[last.b] = 1

\* C3 (pruner fail-safe), as claimed: every borrower a prune evicts had every
\* one of its balance reads succeed, decode and return zero.
C3_PrunerFailSafe ==
    last.op = "pruneDone" => last.evicted \subseteq last.zero

---------------------------------------------------------------------------
\* Claims about the circuit breaker

\* The price moved by more than 30% of the last sample (exact arithmetic).
MovedMoreThan30Percent(lastPrice, currentPrice) ==
    lastPrice > 0 /\ AbsDiff(currentPrice, lastPrice) * 100 > 30 * lastPrice

\* C4 (trip condition), as claimed: when checkPrices reads, for some market,
\* a price that differs from the market's last stored sample by more than
\* 30%, the call trips the breaker and returns false; a price that does not,
\* read without error, is appended to the market's history and the call goes
\* on (returning true after the last market).
C4_TripAboveThirtyPercent ==
    [][(last'.op = "checkRead" /\ last'.res.ok /\ last'.prev # <<>>) =>
          LET q == last'.prev[Len(last'.prev)]
              p == last'.res.val
              h == priceHistory'[last'.m]
          IN IF MovedMoreThan30Percent(q, p)
             THEN isTripped' /\ last'.ret = "false"
             ELSE /\ last'.ret # "false"
                  /\ h # <<>> /\ h[Len(h)] = p]_vars

\* C5 (no automatic recovery): a checkPrices call made on a tripped breaker
\* returns false at once, issues no read and changes neither the history nor
\* the state; the breaker never holds a check in flight while tripped; and
\* the only step that takes the breaker from Tripped to Operational is the
\* start of reset().
C5_NoAutomaticRecovery ==
    [][/\ (isTripped /\ last'.op = "checkStart") =>
             /\ last'.ret = "false"
             /\ ckPc' = 0
             /\ priceHistory' = priceHistory
             /\ isTripped'
       /\ isTripped => ckPc = 0
       /\ (isTripped /\ ~isTripped') => last'.op = "resetStart"]_vars

\* checkPrices was called on a tripped breaker and returned false.
C5_Witness ==
    /\ isTripped
    /\ last.op = "checkStart"
    /\ last.ret = "false"

\* C6 (read errors trip): when a price read of checkPrices fails, for whichever
\* market, the call ends with the breaker Tripped ("Price check failed") and
\* returns false to its caller.
C6_ReadErrorTrips ==
    [][(last'.op = "checkRead" /\ ~last'.res.ok) =>
          /\ isTripped'
          /\ tripReason' = "error"
          /\ ckPc' = 0
          /\ last'.ret = "false"]_vars

\* The read of the second market failed after the first market's check passed.
C6_Witness ==
    /\ last.op = "checkRead"
    /\ ~last.res.ok
    /\ last.m = MarketOrder[2]
    /\ isTripped

---------------------------------------------------------------------------
\* Claims about the evaluation

---------------------------------------------------------------------------
\* Claims about the monitoring loop

\* C7: the loop is at cycle work (pruning, the historical catch, listing and
\* evaluating candidates, settling) only in a cycle whose breaker was not
\* tripped at the start and whose checkPrices() returned true; in a cycle
\* that found the breaker tripped, or whose checkPrices() returned false,
\* the loop goes back to sleep with no pruning, backfill, evaluation or
\* settlement in flight.
C7_SafetyGate ==
    gate # "true" =>
        /\ pc \in {"boot", "seed", "top", "sleep", "check", "exit"}
        /\ prunePc = "idle"
        /\ histPc > 0 => pc = "seed"
        /\ cands = <<>> /\ evals = <<>> /\ queue = <<>> /\ execs = {}

C7_Witness ==
    /\ gate = "false"
    /\ isTripped
    /\ pc = "sleep"
    /\ activeBorrowers # {}

\* C9: gas estimation and the submission of the settlement transaction happen
\* only in an execution whose own fresh eligibility read answered without a
\* protocol error and with shortfall > 0; when that read says not eligible
\* or fails, the execution ends and nothing is submitted for the Opportunity.
C9_StaleOpportunityGuard ==
    [][/\ last'.op \in {"estimateGas", "send"} =>
             /\ last'.fresh.ok /\ last'.fresh.err = 0 /\ last'.fresh.shortfall > 0
       /\ (last'.op = "verify" /\ ~(/\ last'.read.ok
                                     /\ last'.read.err = 0
                                     /\ last'.read.shortfall > 0)) =>
             \A e \in execs' : e.b # last'.b
       /\ last'.op = "verifyThrew" => \A e \in execs' : e.b # last'.b]_vars

C9_Witness ==
    /\ last.op = "send"
    /\ last.ok
    /\ last.fresh.ok /\ last.fresh.shortfall > 0
    /\ \E e \in execs : e.b = last.b /\ e.phase = "wait"

\* C10: at most one executeLiquidation is in flight at any time, and no
\* candidate evaluation is running while a settlement is in flight, in its
\* cooldown, or still waiting in the cycle's for loop.
C10_SettlementMutualExclusion ==
    /\ Cardinality(execs) <= 1
    /\ (execs # {} \/ queue # <<>> \/ pc = "cooldown") =>
           \A i \in DOMAIN evals : evals[i] # "running"

C10_Witness ==
    /\ \E e \in execs : e.phase = "wait"
    /\ queue # <<>>
    /\ ~isRunning

\* Position of borrower b in a list of candidates (0 when absent).
PlaceIn(list, b) ==
    IF \E i \in 1..Len(list) : list[i] = b
    THEN CHOOSE i \in 1..Len(list) : list[i] = b
    ELSE 0

\* C11: the executions of one cycle are started in the order of the cycle's
\* candidates, whatever order the evaluations settled in, and none is started
\* (or in flight) while an evaluation of the cycle is still queued or running.
C11_SettlementOrder ==
    /\ \A i, j \in 1..Len(taken) :
          i < j => /\ PlaceIn(scan, taken[i]) > 0
                   /\ PlaceIn(scan, taken[i]) < PlaceIn(scan, taken[j])
    /\ (taken # <<>> \/ execs # {}) => (evals = <<>> /\ pc # "eval")

C11_Witness ==
    /\ Len(taken) = 2
    /\ overtook
    /\ taken = scan

\* The elements of a sequence.
Range(seq) == {seq[i] : i \in 1..Len(seq)}

\* What every step that is not the receipt of a successful settlement leaves
\* alone, and what tx.wait does besides the record.
SettlementCounters ==
    /\ last'.op = "execute" => last'.b \notin Range(taken)
    /\ last'.op \in {"send", "wait"} => last'.sends = 1
    /\ (last'.op = "wait" /\ last'.outcome = "success")
          => /\ liquidationCount' = liquidationCount + 1
             /\ totalProfit' = totalProfit + last'.profit
    /\ ~(last'.op = "wait" /\ last'.outcome = "success")
          => UNCHANGED <<liquidationCount, totalProfit, liquidations>>

\* One row more, and it is the row of this settlement.
OneRecordAppended ==
    /\ Cardinality(DOMAIN liquidations') = Cardinality(DOMAIN liquidations) + 1
    /\ \A h \in DOMAIN liquidations : liquidations'[h] = liquidations[h]
    /\ \E h \in DOMAIN liquidations' \ DOMAIN liquidations :
          liquidations'[h] = [borrower |-> last'.b, profit |-> last'.profit]

SettlementFailed(l) ==
    \/ l.op = "send" /\ ~l.ok
    \/ l.op = "wait" /\ l.outcome # "success"

Running == {i \in DOMAIN evals : evals[i] = "running"}

\* C14: whatever the size of the snapshot, at most MAX_CONCURRENT_CHECKS
\* evaluations run at any time.
C14_BoundedConcurrency ==
    /\ Cardinality(Running) <= MAX_CONCURRENT_CHECKS
    /\ (\E i \in DOMAIN evals : evals[i] = "queued")
          => Cardinality(Running) = MAX_CONCURRENT_CHECKS

\* A snapshot larger than the pool: the pool is full, one evaluation has
\* finished and one is still queued.
C14_Witness ==
    /\ Len(cands) > MAX_CONCURRENT_CHECKS
    /\ Cardinality(Running) = MAX_CONCURRENT_CHECKS
    /\ \E i \in DOMAIN evals : evals[i] = "queued"
    /\ \E i \in DOMAIN evals : evals[i] = "null"

\* A stop has been requested: /stop (until the next /start) or SIGINT.
StopRequested == ~isRunning \/ shutdown # "no"

C15_OperatorStop ==
    [][ (~isRunning /\ ~isRunning')
           => /\ {i \in DOMAIN evals' : evals'[i] = "running"}
                    \subseteq {i \in DOMAIN evals : evals[i] = "running"}
              /\ last'.op # "execute"
      ]_vars

C16_ResetReseeds ==
    [][ last'.op = "resetDone"
           => LET reads == Append(initReads, last'.res)
              IN /\ ~isTripped' /\ tripReason' = "none"
                 /\ \A i \in 1..Len(MarketOrder) :
                       /\ reads[i].ok
                       /\ priceHistory'[MarketOrder[i]] = <<reads[i].val>>
      ]_vars

\* A reset has completed and a market still has the two samples it had
\* before, the read of its price having failed.
C16_Witness ==
    /\ last.op = "resetDone" /\ ~last.res.ok
    /\ ~isTripped
    /\ Len(priceHistory[MarketOrder[Len(MarketOrder)]]) = 2

---------------------------------------------------------------------------
\* Claims about the registry and the database

\* b is soft-deleted: the database lists it with has_balance = 0, the monitor
\* does not hold it, and it owes nothing on any market.  Live Borrow events
\* and event queries set has_balance = 1, so every Borrow event of b that the
\* monitor has handled came before the deletion.
SoftDeleted(b) ==
    /\ dbEnabled /\ dbStatus[b] = "zero"
    /\ b \notin activeBorrowers
    /\ \A m \in Markets : bal[b][m] = 0

\* C17: an event query of getHistoricalBorrowers (startup seeding or
\* periodic catch) does not put a soft-deleted borrower back into the active
\* set and does not mark it active in the database.
C17_SoftDeleteBlocksReplay ==
    [][ last'.op = "histQuery"
           => \A b \in Borrowers :
                 SoftDeleted(b) => /\ b \notin activeBorrowers'
                                   /\ dbStatus'[b] = "zero"
      ]_vars

\* C18: with the database enabled, what a fresh monitor loads from it is
\* the active set of this monitor, whatever add and remove calls and events
\* came before.
C18_WriteBehindMirror ==
    dbEnabled => loadFromDatabase({}) = activeBorrowers

\* addBorrower has just added an address the database does not list.
C18_Witness ==
    /\ last.op = "add" /\ ~last.was /\ dbEnabled
    /\ last.b \in activeBorrowers
    /\ dbStatus[last.b] = "absent"

\* C19: adding an address twice gives the set and the count of adding it
\* once; removing an absent address changes neither; removing after adding
\* leaves the address absent.
C19_IdempotentMutation ==
    \A a \in Borrowers :
        LET S == activeBorrowers
            once == addBorrower(S, a)
            twice == addBorrower(once, a)
        IN /\ twice = once /\ getCount(twice) = getCount(once)
           /\ a \notin S => /\ removeBorrower(S, a) = S
                            /\ getCount(removeBorrower(S, a)) = getCount(S)
           /\ a \notin removeBorrower(once, a)
           /\ last.op = "add" => (last.b \in S /\ (last.was => getCount(S) = last.count))
           /\ last.op = "remove" => (last.b \notin S /\ (~last.was => getCount(S) = last.count))

\* addBorrower was called for an address the monitor already held, next to
\* another one.
C19_Witness ==
    /\ last.op = "add" /\ last.was
    /\ getCount(activeBorrowers) = 2

\* C20: recording a liquidation whose transaction hash is already in the
\* table leaves the table as it was: same count, same row under that hash,
\* whatever the fields of the new submission.
C20_RecordIdempotent ==
    [][ (last'.op = "record" /\ last'.txHash \in DOMAIN liquidations)
           => /\ getLiquidationCount(liquidations') = getLiquidationCount(liquidations)
              /\ liquidations' = liquidations
      ]_vars

\* A second submission under a recorded hash with other field values, the
\* first row still in place.
C20_Witness ==
    /\ last.op = "record" /\ last.inserted /\ dbEnabled
    /\ last.txHash \in DOMAIN liquidations
    /\ liquidations[last.txHash] # last.row
    /\ getLiquidationCount(liquidations) = 1

---------------------------------------------------------------------------
\* MulticallHelper (helpers/multicall.js) on its own: batchCall and the
\* balance read built on it, applied to call lists and chain answers drawn
\* from bounded sets. Multicall3.aggregate3 is a deployed contract: it runs
\* the calls in order, returns one (success, returnData) per call, and
\* reverts as a whole when a call fails whose allowFailure is false.

MaxCalls == 3

\* `call.allowFailure` as a caller of batchCall may pass it.
AllowFailureFlags == {"undefined", "true", "false"}

\* What one call gives when it is issued alone: reverted, returned data
\* that decodes to a uint, or returned data that does not decode.
CallReverted == [success |-> FALSE, decodes |-> FALSE, value |-> 0]

CallGarbage == [success |-> TRUE, decodes |-> FALSE, value |-> 0]

CallReturned(v) == [success |-> TRUE, decodes |-> TRUE, value |-> v]

SingleResults == {CallReverted, CallGarbage} \cup {CallReturned(v) : v \in Balances}

\* borrowBalanceStored(b) on market m as the target of a call.
Target(b, m) == [b |-> b, m |-> m]

AllTargets == {Target(b, m) : b \in Borrowers, m \in Markets}

BatchTargets == {Target("b1", m) : m \in Markets}

CallAlone(call, chain) == chain[call.target]

Rejected == [rejected |-> TRUE]

\* `call.allowFailure !== undefined ? call.allowFailure : true`
allowFailureNever(flag) == FALSE

allowFailure(flag) == IF flag # "undefined" THEN flag = "true" ELSE TRUE

aggregate3(multicallCalls, chain) ==
    IF \E i \in 1..Len(multicallCalls) :
          /\ ~multicallCalls[i].allowFailure
          /\ ~CallAlone(multicallCalls[i], chain).success
    THEN Rejected
    ELSE [results |-> [i \in 1..Len(multicallCalls) |->
                          CallAlone(multicallCalls[i], chain)]]

\* batchCall: maps the calls, awaits aggregate3 and returns its results; a
\* rejection is logged and thrown again.
batchCall(calls, chain) ==
    LET multicallCalls ==
            [i \in 1..Len(calls) |->
                [target |-> calls[i].target,
                 allowFailure |-> allowFailure(calls[i].allowFailure)]]
    IN aggregate3(multicallCalls, chain)

\* getBorrowBalances, the two nested loops: borrower-major, one call and
\* one metadata entry per borrower x vToken.
borrowBalanceCalls(borrowers, vTokens) ==
    LET M == Len(vTokens)
    IN [k \in 1..(Len(borrowers) * M) |->
           [target |-> Target(borrowers[((k - 1) \div M) + 1],
                              vTokens[((k - 1) % M) + 1]),
            allowFailure |-> "true"]]

\* getBorrowBalances, the parsing loop: results[i] is entered under
\* callMetadata[i]; a failed or undecodable result is entered as 0n, and a
\* later entry for the same borrower and vToken replaces an earlier one.
parseBalances(callMetadata, results) ==
    LET Indices(b, m) == {i \in 1..Len(callMetadata) : callMetadata[i] = Target(b, m)}
        Latest(b, m) == CHOOSE i \in Indices(b, m) : \A j \in Indices(b, m) : j <= i
        Entry(r) == IF r.success /\ r.decodes THEN r.value ELSE 0
    IN [b \in {callMetadata[i].b : i \in 1..Len(callMetadata)} |->
          [m \in {callMetadata[i].m : i \in {j \in 1..Len(callMetadata) : callMetadata[j].b = b}} |->
              Entry(results[Latest(b, m)])]]

batchBorrowBalances(borrowers, vTokens, chain) ==
    LET calls == borrowBalanceCalls(borrowers, vTokens)
        callMetadata == [k \in 1..Len(calls) |-> calls[k].target]
        answer == batchCall(calls, chain)
    IN IF answer = Rejected THEN Rejected
       ELSE [balances |-> parseBalances(callMetadata, answer.results)]

SeqsUpTo(S, n) == UNION {[1..k -> S] : k \in 0..n}

BatchInputs ==
    [kind : {"batch"},
     calls : SeqsUpTo([target : BatchTargets, allowFailure : AllowFailureFlags], MaxCalls),
     chain : [BatchTargets -> SingleResults]]
    \cup
    [kind : {"balances"},
     borrowers : SeqsUpTo(Borrowers, 2),
     chain : [AllTargets -> SingleResults]]

BatchCall ==
    /\ evIn.kind = "batch"
    /\ evOut = NotEvaluated
    /\ evOut' = batchCall(evIn.calls, evIn.chain)
    /\ evIn' = evIn
    /\ last' = [op |-> "batchCall"]

GetBorrowBalances ==
    /\ evIn.kind = "balances"
    /\ evOut = NotEvaluated
    /\ evOut' = batchBorrowBalances(evIn.borrowers, MarketOrder, evIn.chain)
    /\ evIn' = evIn
    /\ last' = [op |-> "getBorrowBalances"]

InitBatch ==
    /\ activeBorrowers = {}
    /\ repayLocks = {}
    /\ repayReads = {}
    /\ lockTimers = [b \in Borrowers |-> 0]
    /\ dbEnabled = FALSE
    /\ dbStatus = [b \in Borrowers |-> "absent"]
    /\ prunePc = "idle"
    /\ pruneSnap = {}
    /\ bal = [b \in Borrowers |-> [m \in Markets |-> 0]]
    /\ windowReads = [b \in Borrowers |-> 0]
    /\ windowEvicts = [b \in Borrowers |-> 0]
    /\ last = [op |-> "init"]
    /\ InitBreaker
    /\ evIn \in BatchInputs
    /\ evOut = NotEvaluated
    /\ InitBot

NextBatch ==
    \/ BatchCall /\ UNCHANGED exceptProfit
    \/ GetBorrowBalances /\ UNCHANGED exceptProfit

SpecBatch == InitBatch /\ [][NextBatch]_vars

---------------------------------------------------------------------------
\* Claims about the multicall batch.

BatchDone == last.op = "batchCall"

OneResultPerCall ==
    /\ evOut # Rejected
    /\ Len(evOut.results) = Len(evIn.calls)
    /\ \A i \in 1..Len(evIn.calls) :
          evOut.results[i] = CallAlone(evIn.calls[i], evIn.chain)

---------------------------------------------------------------------------
\* The profit pipeline on its own (helpers/liquidationCalculator.js with the
\* emission test of checkLiquidationOpportunity), as scripts/mockFlowTest.js
\* drives it.  Amounts and prices keep three decimals; here gas is counted
\* in units of 200000 and gas prices in units of 5 gwei, so that
\* gas * gasPrice is again in thousandths; a slippage is in thousandths.

\* repayAmount: nothing, the smallest amount, 1 and 1000 tokens
RepayAmounts == {0, 1, 1000, 1000000}

\* positive oracle prices: 0.001, 0.50, 1.00, 1.05
PositivePrices == {1, 500, 1000, 1050}

\* liquidationIncentive: 1.00 and 1.08
Incentives == {1000, 1080}

\* gas prices: 0, 5 and 50 gwei
ScenarioGasPrices == {0, 1, 10}

\* estimatedGasUnits: 600000 and 800000
ScenarioGasUnits == {3, 4}

\* swapSlippage: 0, 1%, 50%, 100%
Slippages == {0, 10, 500, 1000}

\* the BNB price the net profit is converted at: unknown, 600, 6919.60, 10000
BnbPrices == {0, 600000, 6919600, 10000000}

CalculatorInputs ==
    [repayAmount : RepayAmounts, debtTokenPrice : PositivePrices,
     collateralTokenPrice : PositivePrices, liquidationIncentive : Incentives,
     gasPrice : ScenarioGasPrices, estimatedGasUnits : ScenarioGasUnits,
     swapSlippage : Slippages, bnbPriceUSD : BnbPrices]

\* mockFlowTest.js main, lines 34-56, followed by the emission test of
\* checkLiquidationOpportunity (the conversion to BNB and the threshold).
profitPipeline(in) ==
    LET collateralReceived ==
            calculateCollateralSeized(in.repayAmount, in.debtTokenPrice,
                                      in.collateralTokenPrice, in.liquidationIncentive)
        collateralToDebtRate == (in.collateralTokenPrice * ONE) \div in.debtTokenPrice
        profit == calculateLiquidationProfit(in.repayAmount, collateralReceived,
                                             collateralToDebtRate, in.gasPrice,
                                             in.estimatedGasUnits, in.swapSlippage)
        profitBNB == convertAmountToBNB(profit.netProfit, in.debtTokenPrice, in.bnbPriceUSD)
    IN [profit |-> profit, profitBNB |-> profitBNB,
        emitted |-> ~BelowThreshold(profit, profitBNB)]

Calculate ==
    /\ evOut = NotEvaluated
    /\ evOut' = profitPipeline(evIn)
    /\ evIn' = evIn
    /\ last' = [op |-> "calculate"]

InitCalculator ==
    /\ activeBorrowers = {}
    /\ repayLocks = {}
    /\ repayReads = {}
    /\ lockTimers = [b \in Borrowers |-> 0]
    /\ dbEnabled = FALSE
    /\ dbStatus = [b \in Borrowers |-> "absent"]
    /\ prunePc = "idle"
    /\ pruneSnap = {}
    /\ bal = [b \in Borrowers |-> [m \in Markets |-> 0]]
    /\ windowReads = [b \in Borrowers |-> 0]
    /\ windowEvicts = [b \in Borrowers |-> 0]
    /\ last = [op |-> "init"]
    /\ InitBreaker
    /\ evIn \in CalculatorInputs
    /\ evOut = NotEvaluated
    /\ InitBot

NextCalculator ==
    Calculate /\ UNCHANGED exceptProfit

SpecCalculator == InitCalculator /\ [][NextCalculator]_vars

---------------------------------------------------------------------------
\* Claims about the profit pipeline.

\* The inputs of mockFlowTest.js: repay 1000 at debt price 1.00, collateral
\* price 1.05, incentive 1.08, 600000 gas at 5 gwei, slippage 1%.
MockScenario ==
    /\ last.op = "calculate"
    /\ evIn.repayAmount = 1000000 /\ evIn.debtTokenPrice = 1000
    /\ evIn.collateralTokenPrice = 1050 /\ evIn.liquidationIncentive = 1080
    /\ evIn.gasPrice = 1 /\ evIn.estimatedGasUnits = 3
    /\ evIn.swapSlippage = 10

C23_NoIncentiveSuppression ==
    (last.op = "calculate" /\ evIn.liquidationIncentive = ONE)
        => /\ evOut.profit.netProfit <= 0
           /\ ~evOut.profit.isProfitable
           /\ ~evOut.emitted

\* No incentive, no gas cost and no slippage on 1000 tokens at equal
\* prices: the swap returns exactly the repayment and nothing is emitted.
C23_Witness ==
    /\ last.op = "calculate" /\ evIn.liquidationIncentive = ONE
    /\ evIn.repayAmount = 1000000 /\ evIn.swapSlippage = 0 /\ evIn.gasPrice = 0
    /\ evIn.debtTokenPrice = evIn.collateralTokenPrice
    /\ evOut.profit.grossProfit = 0
    /\ ~evOut.emitted

---------------------------------------------------------------------------
\* Claims about what the operator is told.

\* The step ends a settlement attempt after its submission: the submission
\* threw, or tx.wait() settled.
AttemptEnded(l) == (l.op = "send" /\ ~l.ok) \/ l.op = "wait"

\* The step is the one in which monitorPositions sends "Circuit Breaker
\* Tripped": checkPrices has returned false to it.
TripNotified == pc = "check" /\ pc' = "sleep" /\ gate' = "false"

\* The breaker parts of C24: a step that trips the breaker is the step in
\* which the loop sends the trip message, and a step that clears the trip
\* is the start of a /reset handler, which sends its message when its
\* initialize() has gone through the markets.
C24_BreakerChangesReported ==
    [][ /\ (isTripped' /\ ~isTripped) => TripNotified
        /\ (isTripped /\ ~isTripped') => (last'.op = "resetStart" /\ initBy' = "reset")
        /\ (initBy = "reset" /\ initBy' # "reset") => last'.op = "resetDone"
      ]_vars

---------------------------------------------------------------------------
\* The quiet loop with progress.  The event loop runs a continuation whose
\* awaited promise has settled and fires a due timer, and a request to the
\* JSON-RPC endpoint is taken to settle, with an answer or with an error.
\* `await tx.wait()` is called without a timeout: it settles when the
\* transaction is mined, which nothing in the program brings about.

\* The reads of an evaluation in the quiet loop, by the shortfall read.
QuietScenario(shortfall) ==
    [account |-> [ok |-> TRUE, err |-> 0, shortfall |-> shortfall], readsOk |-> TRUE,
     debt |-> [m \in Markets |-> IF m = "vBNB" THEN 1000 ELSE 0],
     coll |-> [m \in Markets |-> IF m = "vBNB" THEN 1000 ELSE 0],
     price |-> [m \in Markets |-> 1000],
     params |-> [liquidationIncentive |-> 1080, closeFactor |-> 500],
     gasPrice |-> 1]

\* tx.wait() settles.
SettleMined ==
    \E e \in execs, outcome \in {"success", "status0", "throw"}, inserted \in BOOLEAN :
       ExecWait(e, outcome, inserted) /\ UNCHANGED <<monitorVars, breakerVars, profitVars, restVars>>

\* Every step of the quiet loop but the settling of tx.wait().
SettleAnswered ==
    \/ BootInitialize /\ UNCHANGED exceptBreaker
    \/ InitRead(ReadOk(100)) /\ UNCHANGED exceptBreaker
    \/ StartupSeed(TRUE) /\ UNCHANGED <<breakerVars, profitVars, restVars>>
    \/ \E found \in {{}, Borrowers} :
          HistQuery(TRUE, found) /\ UNCHANGED <<breakerVars, profitVars, restVars>>
    \/ LoopTop /\ UNCHANGED <<monitorVars, profitVars, restVars>>
    \/ CycleCheck(ReadOk(100)) /\ UNCHANGED <<monitorVars, profitVars, restVars>>
    \/ CyclePrune(FALSE) /\ UNCHANGED <<breakerVars, profitVars, restVars>>
    \/ CycleCatch(FALSE) /\ UNCHANGED <<monitorVars, breakerVars, profitVars, restVars>>
    \/ CycleList /\ UNCHANGED <<monitorVars, breakerVars, profitVars, restVars>>
    \/ \E order \in LegacyOrders :
          LegacyFetch(TRUE, order) /\ UNCHANGED <<monitorVars, breakerVars, profitVars, restVars>>
    \/ \E i \in 1..Cardinality(Borrowers), shortfall \in {0, 5} :
          EvalDone(i, QuietScenario(shortfall)) /\ UNCHANGED <<monitorVars, breakerVars, profitVars, restVars>>
    \/ SettleNext /\ UNCHANGED <<monitorVars, breakerVars, profitVars, restVars>>
    \/ \E e \in execs, read \in AccountReads :
          ExecVerify(e, read) /\ UNCHANGED <<monitorVars, breakerVars, profitVars, restVars>>
    \/ \E e \in execs : ExecVerifyThrows(e) /\ UNCHANGED <<monitorVars, breakerVars, profitVars, restVars>>
    \/ \E e \in execs, ok \in BOOLEAN :
          ExecGas(e, ok) /\ UNCHANGED <<monitorVars, breakerVars, profitVars, restVars>>
    \/ \E e \in execs, ok \in BOOLEAN :
          ExecSend(e, ok) /\ UNCHANGED <<monitorVars, breakerVars, profitVars, restVars>>
    \/ CooldownDone /\ UNCHANGED <<monitorVars, breakerVars, profitVars, restVars>>

SpecSettleFair == InitSettle /\ [][NextSettle]_vars /\ WF_vars(SettleAnswered)

\* The same loop when tx.wait() settles as well.
SpecSettleMined ==
    InitSettle /\ [][NextSettle]_vars /\ WF_vars(SettleAnswered) /\ WF_vars(SettleMined)

---------------------------------------------------------------------------
\* Claims about blocking.

\* The loop is at `await setTimeout(POLLING_INTERVAL)`, from which the next
\* cycle starts.
AtPollingSleep == pc = "sleep"

---------------------------------------------------------------------------
\* Startup over a database file left by an earlier run: the file lists some
\* borrowers as active and some with zero balance, the database is
\* configured, and opening it succeeds or fails.  After startup the
\* handlers, the pruner, the public add and remove and recordLiquidation
\* use the database.

StoredTables == [Borrowers -> {"absent", "active", "zero"}]

InitStore ==
    /\ activeBorrowers = {}
    /\ repayLocks = {}
    /\ repayReads = {}
    /\ lockTimers = [b \in Borrowers |-> 0]
    /\ dbEnabled = FALSE
    /\ dbStatus \in StoredTables
    /\ prunePc = "idle"
    /\ pruneSnap = {}
    /\ bal = [b \in Borrowers |-> [m \in Markets |-> 0]]
    /\ windowReads = [b \in Borrowers |-> 0]
    /\ windowEvicts = [b \in Borrowers |-> 0]
    /\ last = [op |-> "init"]
    /\ InitBreaker
    /\ InitProfitIdle
    /\ InitBot

Started == pc \notin {"boot", "exit"}

NextStore ==
    \/ \E opened \in BOOLEAN : MainStart(TRUE, opened) /\ UNCHANGED <<profitVars, restVars>>
    \/ InitRead(ReadOk(100)) /\ UNCHANGED exceptBreaker
    \/ StartupSeed(TRUE) /\ UNCHANGED <<breakerVars, profitVars, restVars>>
    \/ \E found \in {{}, {"b1"}} :
          HistQuery(TRUE, found) /\ UNCHANGED <<breakerVars, profitVars, restVars>>
    \/ \E b \in Borrowers : Started /\ BorrowEvent(b) /\ UNCHANGED exceptMonitor
    \/ Started /\ RepayEvent("b1", "vBNB", 0) /\ UNCHANGED exceptMonitor
    \/ RepayVerify /\ UNCHANGED exceptMonitor
    \/ LockTimerFire("b1") /\ UNCHANGED exceptMonitor
    \/ Started /\ pc = "top" /\ PruneStart /\ UNCHANGED exceptMonitor
    \/ PruneDone([b \in pruneSnap |-> [m \in Markets |-> "ok"]]) /\ UNCHANGED exceptMonitor
    \/ \E b \in Borrowers : Started /\ AddBorrower(b) /\ UNCHANGED exceptMonitor
    \/ \E b \in Borrowers : Started /\ RemoveBorrower(b) /\ UNCHANGED exceptMonitor
    \/ \E inserted \in BOOLEAN :
          Started /\ RecordLiquidation(1, [borrower |-> "b1", profit |-> 26], inserted)
             /\ UNCHANGED <<monitorVars, breakerVars, profitVars, restVars>>

SpecStore == InitStore /\ [][NextStore]_vars

---------------------------------------------------------------------------
\* Claims about the database at startup.

\* C26: when the database cannot be opened at startup, main goes on with
\* the database disabled; from then on it stays disabled, no call changes
\* the borrowers or the liquidations table, loadFromDatabase returns 0 and
\* leaves the monitor empty, and Borrow events, addBorrower and
\* removeBorrower still change the set in memory.
C26_StoreDegradation ==
    [][ /\ (last'.op = "mainStart" /\ ~last'.opened) => (~dbEnabled' /\ boot' = "init")
        /\ (boot # "new" /\ ~dbEnabled)
              => /\ ~dbEnabled'
                 /\ dbStatus' = dbStatus /\ liquidations' = liquidations
                 /\ last'.op = "startup"
                       => (last'.loaded = 0 /\ activeBorrowers' = {} /\ pc' = "seed")
                 /\ last'.op \in {"borrow", "add"} => last'.b \in activeBorrowers'
                 /\ last'.op = "remove" => last'.b \notin activeBorrowers'
      ]_vars

\* The database file lists b1 as active and could not be opened; a Borrow
\* event of b2 was handled after startup: b2 is in the set and not in the
\* table, b1 was not loaded.
C26_Witness ==
    /\ boot # "new" /\ ~dbEnabled
    /\ last.op = "borrow" /\ last.b = "b2"
    /\ activeBorrowers = {"b2"}
    /\ dbStatus["b2"] = "absent" /\ dbStatus["b1"] = "active"

\* The rows the database lists as active.
StoredActive == {b \in Borrowers : dbStatus[b] = "active"}

---------------------------------------------------------------------------
\* The settlement contract on its own: executeLiquidation of the contract
\* of the repository and of its BSC_LiquidationV3 revision, called by some
\* account with some arguments.  A transaction that reverts leaves no
\* effect: no event, no flash loan, no storage change.

\* msg.sender: the deployer and two other accounts
Accounts == {"deployer", "bot", "borrower"}

\* `owner = msg.sender` in the constructor; owner is immutable.
owner == "deployer"

\* A modifier that lets every caller through.
onlyOwnerAnyone(sender) == TRUE

\* modifier onlyOwner: require(msg.sender == owner, "Only owner")
onlyOwner(sender) == sender = owner

Reverted(reason) == [revert |-> reason, flash |-> FALSE, events |-> {}]

\* A call: the caller, which address arguments are address(0), the repay
\* amount, minOutBps (V3), whether the contract is paused (V3), whether the
\* factory knows a pool for the pair and whether pool.flash goes through.
ContractCalls ==
    [sender : Accounts, borrowerZero : BOOLEAN, debtZero : BOOLEAN,
     collateralZero : BOOLEAN, repayAmount : {0, 1}, minOutBps : {100, 5001},
     paused : BOOLEAN, poolExists : BOOLEAN, flashOk : BOOLEAN]

\* executeLiquidation(...) external onlyOwner
executeLiquidation(call) ==
    IF ~onlyOwner(call.sender) THEN Reverted("Only owner")
    ELSE IF call.borrowerZero THEN Reverted("Invalid borrower")
    ELSE IF call.debtZero THEN Reverted("Invalid debt token")
    ELSE IF call.collateralZero THEN Reverted("Invalid collateral token")
    ELSE IF ~(call.repayAmount > 0) THEN Reverted("Invalid repay amount")
    ELSE IF ~call.poolExists THEN Reverted("Pool does not exist")
    ELSE IF ~call.flashOk THEN Reverted("flash")
    ELSE [revert |-> "none", flash |-> TRUE, events |-> {"FlashLoanInitiated"}]

\* BSC_LiquidationV3.executeLiquidation(...) external onlyOwner
\* nonReentrant whenNotPaused: the modifiers run in this order; a top-level
\* call is never a re-entry.
executeLiquidationV3(call) ==
    IF ~onlyOwner(call.sender) THEN Reverted("Only owner")
    ELSE IF call.paused THEN Reverted("EnforcedPause")
    ELSE IF call.borrowerZero THEN Reverted("Invalid borrower")
    ELSE IF ~(call.repayAmount > 0) THEN Reverted("Invalid repay amount")
    ELSE IF ~(call.minOutBps <= 5000) THEN Reverted("minOut too high")
    ELSE IF ~call.poolExists THEN Reverted("Pool does not exist")
    ELSE IF ~call.flashOk THEN Reverted("flash")
    ELSE [revert |-> "none", flash |-> TRUE, events |-> {}]

CallExecuteLiquidation ==
    /\ evOut = NotEvaluated
    /\ evOut' = executeLiquidation(evIn)
    /\ evIn' = evIn
    /\ last' = [op |-> "executeLiquidation"]

CallExecuteLiquidationV3 ==
    /\ evOut = NotEvaluated
    /\ evOut' = executeLiquidationV3(evIn)
    /\ evIn' = evIn
    /\ last' = [op |-> "executeLiquidationV3"]

InitContract ==
    /\ activeBorrowers = {}
    /\ repayLocks = {}
    /\ repayReads = {}
    /\ lockTimers = [b \in Borrowers |-> 0]
    /\ dbEnabled = FALSE
    /\ dbStatus = [b \in Borrowers |-> "absent"]
    /\ prunePc = "idle"
    /\ pruneSnap = {}
    /\ bal = [b \in Borrowers |-> [m \in Markets |-> 0]]
    /\ windowReads = [b \in Borrowers |-> 0]
    /\ windowEvicts = [b \in Borrowers |-> 0]
    /\ last = [op |-> "init"]
    /\ InitBreaker
    /\ evIn \in ContractCalls
    /\ evOut = NotEvaluated
    /\ InitBot

NextContract ==
    \/ CallExecuteLiquidation /\ UNCHANGED exceptProfit
    \/ CallExecuteLiquidationV3 /\ UNCHANGED exceptProfit

SpecContract == InitContract /\ [][NextContract]_vars

---------------------------------------------------------------------------
\* Claims about the settlement contract.

\* C28: executeLiquidation called by an account other than the deployer
\* reverts with "Only owner", whatever the arguments and whatever other
\* check would fail, and neither starts a flash loan nor emits an event.
C28_OnlyOwner ==
    (last.op \in {"executeLiquidation", "executeLiquidationV3"} /\ evIn.sender # owner)
        => /\ evOut.revert = "Only owner"
           /\ ~evOut.flash
           /\ evOut.events = {}

\* The borrower's account calls with arguments that the owner could use
\* (the pool exists, the flash would go through): the call reverts.
C28_Witness ==
    /\ last.op = "executeLiquidation" /\ evIn.sender = "borrower"
    /\ ~evIn.borrowerZero /\ ~evIn.debtZero /\ ~evIn.collateralZero
    /\ evIn.repayAmount > 0 /\ evIn.poolExists /\ evIn.flashOk
    /\ evOut = Reverted("Only owner")
    /\ executeLiquidation([evIn EXCEPT !.sender = owner]).flash

---------------------------------------------------------------------------
\* Claims about eviction and tracked debt

\* C29 (no under-tracking by the repay handler): a RepayBorrow handler that
\* removes its borrower from the active set does so only when the borrower
\* owes nothing on any tracked market.
C29_NoUnderTracking ==
    [][(/\ last'.op = "repayDone"
        /\ last'.b \in activeBorrowers
        /\ last'.b \notin activeBorrowers')
          => \A m \in Markets : bal[last'.b][m] = 0]_vars

\* A handler whose read of the event's market returned zero has removed a
\* borrower who still owes on another market.
C29_Witness ==
    /\ last.op = "repayDone"
    /\ last.res.ok /\ last.res.val = 0
    /\ last.b \notin activeBorrowers
    /\ \E m \in Markets : bal[last.b][m] > 0

\* A verification read that covers borrower b is outstanding: the point read
\* of a RepayBorrow handler, or the batch read of a prune whose snapshot
\* holds b.
ReadOutstanding(b) ==
    \/ \E h \in repayReads : h.b = b
    \/ prunePc = "reading" /\ b \in pruneSnap

\* The step completes an operation whose read covered b.
CompletesReadOf(b) ==
    \/ last'.op = "repayDone" /\ last'.b = b
    \/ last'.op = "pruneDone" /\ b \in pruneSnap

\* C30 (no lost debt-open): when a Borrow event for b was handled while a
\* verification read covering b was outstanding, the completion of that
\* operation leaves b in the active set and active in the store.
C30_NoLostDebtOpen ==
    [][(/\ last.op = "borrow"
        /\ ReadOutstanding(last.b)
        /\ CompletesReadOf(last.b))
          => /\ last.b \in activeBorrowers'
             /\ dbEnabled => dbStatus'[last.b] = "active"]_vars

\* A Borrow event for a borrower with debt has just been handled while the
\* point read of a RepayBorrow handler for that borrower is outstanding, and
\* the market that read asks about holds no debt of the borrower.
C30_Witness ==
    /\ last.op = "borrow"
    /\ last.b \in activeBorrowers
    /\ dbEnabled /\ dbStatus[last.b] = "active"
    /\ \E h \in repayReads :
          /\ h.b = last.b
          /\ bal[h.b][h.m] = 0
          /\ \E m \in Markets : bal[h.b][m] > 0

---------------------------------------------------------------------------
\* The /reset command against the monitoring loop's price check, with the
\* oracle holding steady

\* The oracle's price of each market; it does not move and no read fails.
SteadyOracle == [prices : [Markets -> Prices]]

\* oracle.getUnderlyingPrice(address) answering the steady price, for the read
\* that initialize() awaits.
SteadyInitRead == InitRead(ReadOk(evIn.prices[MarketOrder[initPc]]))

\* The same for the read that checkPrices() awaits.
SteadyCheckRead == ckPc > 0 /\ CheckRead(ReadOk(evIn.prices[MarketOrder[ckPc]]))

\* The bot has started, every market has the one sample initialize() stored
\* for it, the breaker has tripped since (on a price move or on a failed
\* read), and nothing is in flight.
InitReset ==
    /\ activeBorrowers = {}
    /\ repayLocks = {}
    /\ repayReads = {}
    /\ lockTimers = [b \in Borrowers |-> 0]
    /\ dbEnabled = FALSE
    /\ dbStatus = [b \in Borrowers |-> "absent"]
    /\ prunePc = "idle"
    /\ pruneSnap = {}
    /\ bal = [b \in Borrowers |-> [m \in Markets |-> 0]]
    /\ windowReads = [b \in Borrowers |-> 0]
    /\ windowEvicts = [b \in Borrowers |-> 0]
    /\ last = [op |-> "init"]
    /\ isTripped = TRUE
    /\ tripReason \in {"extreme", "error"}
    /\ priceHistory \in [Markets -> {<<p>> : p \in Prices}]
    /\ ckPc = 0
    /\ initPc = 0
    /\ initBy = "none"
    /\ boot = "run"
    /\ initReads = <<>>
    /\ evIn \in SteadyOracle
    /\ evOut = NotEvaluated
    /\ InitBot

\* The operator sends /reset when the breaker is tripped; the loop's cycles
\* call checkPrices() one at a time, at any moment.
NextReset ==
    \/ isTripped /\ ResetStart /\ UNCHANGED exceptBreaker
    \/ SteadyInitRead /\ UNCHANGED exceptBreaker
    \/ CheckStart /\ UNCHANGED exceptBreaker
    \/ SteadyCheckRead /\ UNCHANGED exceptBreaker

SpecReset == InitReset /\ [][NextReset]_vars

---------------------------------------------------------------------------
\* Claims about reset

\* C31 (reset under interleaving): a reset() invoked on a tripped breaker,
\* with no price moving and no read failing after it begins, leaves the
\* breaker operational when it returns, also when a cycle's checkPrices()
\* runs between its reads.
C31_ResetUnderInterleaving ==
    [][last'.op = "resetDone" => ~isTripped']_vars

\* reset() has returned with every market's history re-seeded from the
\* steady price, and the breaker is tripped on a price movement.
C31_Witness ==
    /\ last.op = "resetDone"
    /\ isTripped /\ tripReason = "extreme"
    /\ \A m \in Markets : priceHistory[m] = <<evIn.prices[m]>>

---------------------------------------------------------------------------
\* The scan of a registry that does not change: the bot has started, the
\* event monitor holds the first n of the scan addresses, inserted in that
\* order, no event, command or prune changes the set, the oracle is steady
\* and no borrower is liquidatable.  A Set iterates in insertion order, so
\* every cycle gets the same array from eventMonitor.getActiveBorrowers().

\* The registries of the scan, by size; the largest holds one borrower more
\* than a scan takes.
ScanRegistries == {SubSeq(ScanAddresses, 1, n) : n \in 1..Len(ScanAddresses)}

InitScan ==
    /\ evIn \in {[order |-> r] : r \in ScanRegistries}
    /\ evOut = NotEvaluated
    /\ activeBorrowers = {evIn.order[i] : i \in 1..Len(evIn.order)}
    /\ repayLocks = {}
    /\ repayReads = {}
    /\ lockTimers = [b \in Borrowers |-> 0]
    /\ dbEnabled = FALSE
    /\ dbStatus = [b \in Borrowers |-> "absent"]
    /\ prunePc = "idle"
    /\ pruneSnap = {}
    /\ bal = [b \in Borrowers |-> [m \in Markets |-> 0]]
    /\ windowReads = [b \in Borrowers |-> 0]
    /\ windowEvicts = [b \in Borrowers |-> 0]
    /\ last = [op |-> "init"]
    /\ isTripped = FALSE
    /\ tripReason = "none"
    /\ priceHistory = [m \in Markets |-> <<100>>]
    /\ ckPc = 0
    /\ initPc = 0
    /\ initBy = "none"
    /\ boot = "run"
    /\ initReads = <<>>
    /\ isRunning = TRUE
    /\ pc = "top"
    /\ gate = "none"
    /\ histPc = 0
    /\ cands = <<>>
    /\ evals = <<>>
    /\ queue = <<>>
    /\ execs = {}
    /\ liquidationCount = 0
    /\ scan = <<>>
    /\ taken = <<>>
    /\ overtook = FALSE
    /\ totalProfit = 0
    /\ opps = {}
    /\ liquidations = <<>>
    /\ shutdown = "no"
    /\ lastPruningTs = 0
    /\ now = 0
    /\ clock = BORROWER_PRUNING_INTERVAL_MS + 1
    /\ isListening = FALSE
    /\ eventListeners = <<>>
    /\ subscriptions = {}
    /\ contracts = 0
    /\ InitRpc

\* The evaluation that was started first among those running resolves: the
\* node answers the reads in the order they were issued.
EvalDoneInOrder ==
    \E i \in 1..Len(ScanAddresses) :
       /\ i \in DOMAIN evals
       /\ \A j \in 1..(i - 1) : evals[j] # "running"
       /\ EvalDone(i, QuietScenario(0))

NextScan ==
    \/ LoopTop /\ UNCHANGED <<monitorVars, profitVars, restVars>>
    \/ CycleCheck(ReadOk(100)) /\ UNCHANGED <<monitorVars, profitVars, restVars>>
    \/ CyclePrune(FALSE) /\ UNCHANGED <<breakerVars, profitVars, restVars>>
    \/ CycleCatch(FALSE) /\ UNCHANGED <<monitorVars, breakerVars, profitVars, restVars>>
    \/ CycleListIn(evIn.order) /\ UNCHANGED <<monitorVars, breakerVars, profitVars, restVars>>
    \/ EvalDoneInOrder /\ UNCHANGED <<monitorVars, breakerVars, profitVars, restVars>>
    \/ SettleNext /\ UNCHANGED <<monitorVars, breakerVars, profitVars, restVars>>

\* Every step is the continuation of a settled await or a due timer.
SpecScan == InitScan /\ [][NextScan]_vars /\ WF_vars(NextScan)

---------------------------------------------------------------------------
\* Claims about the scan

\* The evaluation of borrower b has just resolved.
Evaluated(b) == last.op = "evalDone" /\ last.b = b

\* The borrowers the claim is checked for: the one inserted first and the
\* one inserted last.
Watched == {ScanAddresses[1], ScanAddresses[Len(ScanAddresses)]}

\* C32 (scan fairness): with the loop running and the breaker operational,
\* every borrower that stays in the active set is evaluated in some later
\* cycle, also when the set holds more members than one scan takes.
C32_ScanFairness ==
    \A b \in Watched : [](b \in activeBorrowers => <>Evaluated(b))

\* A cycle evaluates MAX_BORROWERS_PER_SCAN candidates of a registry that
\* holds one more, and the last borrower of the registry is not among them.
C32_Witness ==
    /\ pc = "eval"
    /\ Cardinality(activeBorrowers) > MAX_BORROWERS_PER_SCAN
    /\ Len(scan) = MAX_BORROWERS_PER_SCAN
    /\ \E b \in activeBorrowers : \A i \in 1..Len(scan) : scan[i] # b
    /\ gate = "true" /\ isRunning /\ ~isTripped

---------------------------------------------------------------------------
\* The RepayBorrow handlers with progress: the awaited borrowBalanceStored
\* settles, with a balance or with an error, and a timer that is due fires,
\* each handler's own.

\* The read that the handler for borrower b awaits settles.
ReadSettles(b) ==
    /\ \E h \in repayReads :
          /\ h.b = b
          /\ \E res \in {ReadOk(bal[h.b][h.m]), ReadFailed} : RepayReadDone(h, res)
    /\ UNCHANGED exceptMonitor

TimerFires(b) == LockTimerFire(b) /\ UNCHANGED exceptMonitor

\* Debts are opened and repaid on one market; the accountBorrows argument of
\* the event, which the handler does not read, is left at 0.
NextLocks ==
    \/ \E b \in Borrowers : BorrowEvent(b) /\ UNCHANGED exceptMonitor
    \/ \E b \in Borrowers : RepayEvent(b, "vBNB", 0) /\ UNCHANGED exceptMonitor
    \/ \E b \in Borrowers : ReadSettles(b)
    \/ \E b \in Borrowers : TimerFires(b)
    \/ \E b \in Borrowers, v \in Balances :
          LedgerChange(b, "vBNB", v) /\ UNCHANGED exceptMonitor

SpecLocks ==
    /\ InitMonitor
    /\ [][NextLocks]_vars
    /\ \A b \in Borrowers : WF_vars(ReadSettles(b))
    /\ \A b \in Borrowers : WF_vars(TimerFires(b))

---------------------------------------------------------------------------
\* Claims about the repay lock

\* The handler invocations that hold b's lock: one suspended at its read, or
\* one whose release timer is pending.
LockHolders(b) == Cardinality({h \in repayReads : h.b = b}) + lockTimers[b]

---------------------------------------------------------------------------
\* The periodic pruning with its timestamps: the loop runs its cycles while
\* time passes, the oracle is steady, two borrowers are tracked with or
\* without debt, no borrower is liquidatable, and the multicall of a prune
\* either answers every call or rejects.

\* The clock is followed up to MaxClock.
MaxClock == 9

\* `now - lastPruningTs > BORROWER_PRUNING_INTERVAL_MS`
PruneDue(t, lastTs) == t - lastTs > BORROWER_PRUNING_INTERVAL_MS

\* lastPruningTs after the try block: `lastPruningTs = now` is skipped when
\* the awaited pruneBorrowers throws.
PruneStampAlways(failed, t, lastTs) == t

PruneStamp(failed, t, lastTs) == IF failed THEN lastTs ELSE t

\* Time passes.
Tick ==
    /\ clock < MaxClock
    /\ clock' = clock + 1
    /\ last' = [op |-> "tick"]
    /\ UNCHANGED <<monitorVars, breakerVars, profitVars, botVars, lastPruningTs, now,
                   listenerVars, rpcVars>>

\* `const now = Date.now()` and the test of the interval; pruneBorrowers on an
\* empty set returns without a read, and the loop stamps at once.
CyclePruneTimed ==
    /\ now' = clock
    /\ CyclePrune(PruneDue(clock, lastPruningTs))
    /\ lastPruningTs' = IF last'.op = "pruneEmpty"
                        THEN PruneStamp(FALSE, clock, lastPruningTs)
                        ELSE lastPruningTs
    /\ UNCHANGED clock

\* The awaited pruneBorrowers returns or throws.
CyclePrunedTimed(failed) ==
    /\ CyclePruned(failed, [b \in pruneSnap |-> [m \in Markets |-> "ok"]])
    /\ lastPruningTs' = PruneStamp(failed, now, lastPruningTs)
    /\ UNCHANGED <<now, clock>>

NextPruneTimer ==
    \/ Tick
    \/ BootInitialize /\ UNCHANGED exceptBreaker
    \/ InitRead(ReadOk(100)) /\ UNCHANGED exceptBreaker
    \/ StartupSeed(TRUE) /\ UNCHANGED <<breakerVars, profitVars, restVars>>
    \/ \E found \in {{}, Borrowers} :
          HistQuery(TRUE, found) /\ UNCHANGED <<breakerVars, profitVars, restVars>>
    \/ \E b \in Borrowers : BorrowEvent(b) /\ UNCHANGED exceptMonitor
    \/ \E b \in Borrowers, v \in {0, 1} :
          LedgerChange(b, "vBNB", v) /\ UNCHANGED exceptMonitor
    \/ LoopTop /\ UNCHANGED <<monitorVars, profitVars, restVars>>
    \/ CycleCheck(ReadOk(100)) /\ UNCHANGED <<monitorVars, profitVars, restVars>>
    \/ CyclePruneTimed /\ UNCHANGED <<breakerVars, profitVars, listenerVars, rpcVars>>
    \/ \E failed \in BOOLEAN :
          CyclePrunedTimed(failed)
             /\ UNCHANGED <<breakerVars, profitVars, listenerVars, rpcVars>>
    \/ CycleCatch(FALSE) /\ UNCHANGED <<monitorVars, breakerVars, profitVars, restVars>>
    \/ CycleList /\ UNCHANGED <<monitorVars, breakerVars, profitVars, restVars>>
    \/ EvalDoneInOrder /\ UNCHANGED <<monitorVars, breakerVars, profitVars, restVars>>
    \/ SettleNext /\ UNCHANGED <<monitorVars, breakerVars, profitVars, restVars>>

SpecPruneTimer == InitSettle /\ [][NextPruneTimer]_vars

---------------------------------------------------------------------------
\* Claims about the periodic pruning

\* The loop has reached the test of the pruning interval.
PruneTested == last'.op \in {"pruneStart", "pruneEmpty", "pruneNotDue"}

\* The latest cycle that reached the test called pruneBorrowers and the call
\* threw: the cycle was due, the call is over and lastPruningTs was not moved
\* to the cycle's time.
LatestPruneFailed == pc # "prune" /\ now > 0 /\ PruneDue(now, lastPruningTs)

\* C34 (pruner non-reentrancy): a prune is in flight only while the loop is
\* suspended at it, so pruneBorrowers is never called while an earlier call
\* has not returned; each successful prune is stamped with a time more than
\* the pruning interval after the stamp of the one before; and a prune that
\* threw leaves the stamp alone, so that the next cycle that reaches the test
\* calls pruneBorrowers again.
C34_PrunerTiming ==
    /\ [](prunePc = "reading" <=> pc = "prune")
    /\ [][last'.op \in {"pruneStart", "pruneEmpty"} => prunePc = "idle" /\ pruneSnap = {}]_vars
    /\ [][lastPruningTs' # lastPruningTs
            => lastPruningTs' - lastPruningTs > BORROWER_PRUNING_INTERVAL_MS]_vars
    /\ [][last'.op = "pruneError"
            => lastPruningTs' = lastPruningTs /\ LatestPruneFailed']_vars
    /\ [][~PruneTested => (LatestPruneFailed => LatestPruneFailed')]_vars
    /\ [][PruneTested /\ LatestPruneFailed => last'.op # "pruneNotDue"]_vars

\* A prune that followed a successful one has thrown, and the loop goes on
\* with the cycle.
C34_Witness ==
    /\ last.op = "pruneError" /\ prunePc = "idle" /\ pc = "pruned"
    /\ lastPruningTs > 0
    /\ LatestPruneFailed

---------------------------------------------------------------------------
\* EventMonitor.startListening and stopListening, called in any order.
\* ethers' Contract.on is an async function: it cannot throw into the try
\* block, so a market's setup fails only in `new ethers.Contract`, before any
\* listener of that market is registered.

\* startListening calls that get past the guard, in one run of the model.
MaxStarts == 3

\* The events startListening subscribes to on each vToken.
ListenedEvents == {"Borrow", "RepayBorrow", "LiquidateBorrow"}

\* `if (this.isListening) return`
AlreadyListeningNever(listening) == FALSE

AlreadyListening(listening) == listening

\* The body of the for loop of startListening for the markets ms, in order:
\* a market in `broken` is skipped by the catch; for the others a Contract
\* object is created, its three listeners are registered and the object is
\* pushed.  st = [kept, subs, n].
RECURSIVE SetUpListeners(_, _, _)
SetUpListeners(ms, broken, st) ==
    IF ms = <<>> THEN st
    ELSE LET m == Head(ms)
             c == [market |-> m, id |-> st.n + 1]
         IN SetUpListeners(Tail(ms), broken,
               IF m \in broken THEN st
               ELSE [kept |-> Append(st.kept, c),
                     subs |-> st.subs \cup {[contract |-> c, event |-> e] : e \in ListenedEvents},
                     n    |-> st.n + 1])

\* startListening(); it contains no await and runs to its end in one step.
StartListening(broken) ==
    /\ IF AlreadyListening(isListening)
       THEN /\ last' = [op |-> "startListening", noop |-> TRUE]
            /\ UNCHANGED listenerVars
       ELSE /\ contracts + Len(MarketOrder) <= MaxStarts * Len(MarketOrder)
            /\ LET st == SetUpListeners(MarketOrder, broken,
                            [kept |-> eventListeners, subs |-> subscriptions,
                             n |-> contracts])
               IN /\ eventListeners' = st.kept
                  /\ subscriptions' = st.subs
                  /\ contracts' = st.n
            /\ isListening' = TRUE
            /\ last' = [op |-> "startListening", noop |-> FALSE]
    /\ UNCHANGED <<monitorVars, breakerVars, profitVars, botVars, timerVars, rpcVars>>

\* vToken.removeAllListeners() for the contract objects that were kept.
RemoveAllListeners(subs, kept) ==
    {s \in subs : \A i \in DOMAIN kept : kept[i] # s.contract}

\* stopListening()
StopListening ==
    /\ IF ~isListening
       THEN /\ last' = [op |-> "stopListening", noop |-> TRUE]
            /\ UNCHANGED listenerVars
       ELSE /\ subscriptions' = RemoveAllListeners(subscriptions, eventListeners)
            /\ eventListeners' = <<>>
            /\ isListening' = FALSE
            /\ last' = [op |-> "stopListening", noop |-> FALSE]
            /\ UNCHANGED contracts
    /\ UNCHANGED <<monitorVars, breakerVars, profitVars, botVars, timerVars, rpcVars>>

\* A ledger event of market m arrives: every listener registered for it runs.
\* The handlers themselves are the actions BorrowEvent and RepayEvent.
Delivered(m, e) == {s \in subscriptions : s.contract.market = m /\ s.event = e}

NextListener ==
    \/ \E broken \in SUBSET Markets : StartListening(broken)
    \/ StopListening

SpecListener == InitMonitor /\ [][NextListener]_vars

---------------------------------------------------------------------------
\* Claims about the listener

\* C35 (listening state machine): startListening() while listening changes
\* nothing and registers nothing, so no event of a market is delivered to two
\* handlers; after stopListening() the monitor is not listening and no
\* listener is registered; stopListening() while not listening changes
\* nothing.
C35_ListeningStateMachine ==
    /\ [][(last'.op = "startListening" /\ isListening)
             => last'.noop /\ UNCHANGED listenerVars]_vars
    /\ [](\A m \in Markets, e \in ListenedEvents : Cardinality(Delivered(m, e)) <= 1)
    /\ [][last'.op = "stopListening" => ~isListening' /\ subscriptions' = {}]_vars
    /\ [][(last'.op = "stopListening" /\ ~isListening)
             => last'.noop /\ UNCHANGED listenerVars]_vars

\* startListening() has been called on a monitor that was listening, after an
\* earlier stop and restart, and the listeners are those of the restart.
C35_Witness ==
    /\ last.op = "startListening" /\ last.noop
    /\ isListening
    /\ contracts > Len(MarketOrder)
    /\ subscriptions # {}
    /\ \A s \in subscriptions : \E i \in DOMAIN eventListeners : eventListeners[i] = s.contract

---------------------------------------------------------------------------
\* Claims about the repay amount

\* The debt position the evaluation selects: the largest by value.
SelectedDebt == getAllPositions(evIn.debt, evIn.price)[1]

\* C36 (repay bound): an Opportunity is emitted only with liquidation
\* parameters read and positive prices of the debt token and of BNB; its
\* repay amount is at most the selected borrow balance times the close
\* factor, and the value of that amount in BNB, as convertAmountToBNB
\* computes it, is at most MAX_LIQUIDATION_SIZE.
C36_RepayBound ==
    IsOpportunity(evOut)
       => /\ evIn.params # Null
          /\ SelectedDebt.priceUSD > 0 /\ evIn.price[MarketOrder[1]] > 0
          /\ evOut.repayAmount
                <= (SelectedDebt.amount * evIn.params.closeFactor) \div ONE
          /\ convertAmountToBNB(evOut.repayAmount, SelectedDebt.priceUSD,
                                evIn.price[MarketOrder[1]]) <= MAX_LIQUIDATION_SIZE

\* An Opportunity whose repay amount was cut by the size cap: it is smaller
\* than the close factor allows.
C36_Witness ==
    /\ IsOpportunity(evOut)
    /\ evIn.params # Null
    /\ evOut.repayAmount < (SelectedDebt.amount * evIn.params.closeFactor) \div ONE
    /\ evOut.repayAmount = convertBNBToAmount(MAX_LIQUIDATION_SIZE, SelectedDebt.priceUSD,
                                              evIn.price[MarketOrder[1]])

---------------------------------------------------------------------------
\* The settlement with any gas estimate: the quiet loop, where
\* estimateGas answers any amount up to MaxGas or rejects.

\* The largest estimate, in units of 100000 gas.
MaxGas == 12

GasEstimates == {GasEstimated(g) : g \in 0..MaxGas} \cup {EstimateFailed}

NextGas ==
    \/ BootInitialize /\ UNCHANGED exceptBreaker
    \/ InitRead(ReadOk(100)) /\ UNCHANGED exceptBreaker
    \/ StartupSeed(TRUE) /\ UNCHANGED <<breakerVars, profitVars, restVars>>
    \/ HistQuery(TRUE, Borrowers) /\ UNCHANGED <<breakerVars, profitVars, restVars>>
    \/ LoopTop /\ UNCHANGED <<monitorVars, profitVars, restVars>>
    \/ CycleCheck(ReadOk(100)) /\ UNCHANGED <<monitorVars, profitVars, restVars>>
    \/ CyclePrune(FALSE) /\ UNCHANGED <<breakerVars, profitVars, restVars>>
    \/ CycleCatch(FALSE) /\ UNCHANGED <<monitorVars, breakerVars, profitVars, restVars>>
    \/ CycleList /\ UNCHANGED <<monitorVars, breakerVars, profitVars, restVars>>
    \/ \E i \in 1..Cardinality(Borrowers), shortfall \in {0, 5} :
          EvalDone(i, QuietScenario(shortfall))
             /\ UNCHANGED <<monitorVars, breakerVars, profitVars, restVars>>
    \/ SettleNext /\ UNCHANGED <<monitorVars, breakerVars, profitVars, restVars>>
    \/ \E e \in execs :
          ExecVerify(e, QuietScenario(5).account)
             /\ UNCHANGED <<monitorVars, breakerVars, profitVars, restVars>>
    \/ \E e \in execs, est \in GasEstimates :
          ExecGasEstimate(e, est) /\ UNCHANGED <<monitorVars, breakerVars, profitVars, restVars>>
    \/ \E e \in execs, ok \in BOOLEAN :
          ExecSend(e, ok) /\ UNCHANGED <<monitorVars, breakerVars, profitVars, restVars>>
    \/ \E e \in execs, outcome \in {"success", "status0", "throw"} :
          ExecWait(e, outcome, TRUE) /\ UNCHANGED <<monitorVars, breakerVars, profitVars, restVars>>
    \/ CooldownDone /\ UNCHANGED <<monitorVars, breakerVars, profitVars, restVars>>

SpecGas == InitSettle /\ [][NextGas]_vars

---------------------------------------------------------------------------
\* Claims about the gas limit

\* C37 (gas limit): when estimateGas answers, the settlement is submitted
\* with the estimate times (100 + GAS_ESTIMATE_BUFFER_PERCENT) / 100, rounded
\* down; when it rejects, with DEFAULT_GAS_LIMIT; in both cases the
\* settlement goes on to the submission, which is the next step of that
\* settlement.
C37_GasLimit ==
    /\ [][last'.op = "estimateGas"
            => \E e \in execs' :
                  /\ e.b = last'.b /\ e.phase = "send"
                  /\ e.gasLimit = IF last'.est.ok
                                  THEN (last'.est.gas * (100 + GAS_ESTIMATE_BUFFER_PERCENT)) \div 100
                                  ELSE DEFAULT_GAS_LIMIT]_vars
    /\ [][last'.op = "send"
             => /\ last.op = "estimateGas" /\ last.b = last'.b
                /\ last'.gasLimit = IF last.est.ok
                                    THEN (last.est.gas * (100 + GAS_ESTIMATE_BUFFER_PERCENT)) \div 100
                                    ELSE DEFAULT_GAS_LIMIT]_vars

\* The estimate of a settlement was rejected, and the settlement stands at
\* its submission with the default limit.
C37_Witness ==
    /\ last.op = "estimateGas" /\ ~last.est.ok
    /\ \E e \in execs : e.b = last.b /\ e.phase = "send" /\ e.gasLimit = DEFAULT_GAS_LIMIT
    /\ pc = "settle"

---------------------------------------------------------------------------
\* The cycle with evaluations that fail: the quiet loop, where the reads of
\* an evaluation find a liquidatable position, find none, are rejected, or
\* return a zero price.

FailingScenarios ==
    {QuietScenario(5), QuietScenario(0),
     [QuietScenario(5) EXCEPT !.readsOk = FALSE],
     [QuietScenario(5) EXCEPT !.price = [m \in Markets |-> 0]]}

NextIsolation ==
    \/ BootInitialize /\ UNCHANGED exceptBreaker
    \/ InitRead(ReadOk(100)) /\ UNCHANGED exceptBreaker
    \/ StartupSeed(TRUE) /\ UNCHANGED <<breakerVars, profitVars, restVars>>
    \/ HistQuery(TRUE, Borrowers) /\ UNCHANGED <<breakerVars, profitVars, restVars>>
    \/ LoopTop /\ UNCHANGED <<monitorVars, profitVars, restVars>>
    \/ CycleCheck(ReadOk(100)) /\ UNCHANGED <<monitorVars, profitVars, restVars>>
    \/ CyclePrune(FALSE) /\ UNCHANGED <<breakerVars, profitVars, restVars>>
    \/ CycleCatch(FALSE) /\ UNCHANGED <<monitorVars, breakerVars, profitVars, restVars>>
    \/ CycleList /\ UNCHANGED <<monitorVars, breakerVars, profitVars, restVars>>
    \/ \E i \in 1..Cardinality(Borrowers), in \in FailingScenarios :
          EvalDone(i, in) /\ UNCHANGED <<monitorVars, breakerVars, profitVars, restVars>>
    \/ SettleNext /\ UNCHANGED <<monitorVars, breakerVars, profitVars, restVars>>
    \/ \E e \in execs, read \in {QuietScenario(5).account, QuietScenario(0).account} :
          ExecVerify(e, read) /\ UNCHANGED <<monitorVars, breakerVars, profitVars, restVars>>
    \/ \E e \in execs, ok \in BOOLEAN :
          ExecGas(e, ok) /\ UNCHANGED <<monitorVars, breakerVars, profitVars, restVars>>
    \/ \E e \in execs, ok \in BOOLEAN :
          ExecSend(e, ok) /\ UNCHANGED <<monitorVars, breakerVars, profitVars, restVars>>
    \/ \E e \in execs, outcome \in {"success", "status0", "throw"} :
          ExecWait(e, outcome, TRUE) /\ UNCHANGED <<monitorVars, breakerVars, profitVars, restVars>>
    \/ CooldownDone /\ UNCHANGED <<monitorVars, breakerVars, profitVars, restVars>>

SpecIsolation == InitSettle /\ [][NextIsolation]_vars

---------------------------------------------------------------------------
\* Claims about failing evaluations

\* The borrowers of a sequence.
Members(seq) == {seq[k] : k \in DOMAIN seq}

\* C38 (candidate isolation): an evaluation that throws yields no
\* Opportunity and leaves the cycle waiting for the other candidates, whose
\* evaluations go on; when the last evaluation resolves, every candidate of
\* the scan has been evaluated and the settlement phase starts with exactly
\* the Opportunities that were returned, each once; and a cycle that ends
\* with the bot running has started the settlement of every one of them.
C38_CandidateIsolation ==
    /\ [][last'.op = "evalDone"
            => /\ last'.threw => ~last'.opp
               /\ pc' \in {"eval", "settle"}
               /\ opps \subseteq opps'
               /\ pc' = "eval"
                    => /\ cands' = cands
                       /\ \A j \in DOMAIN evals :
                             cands[j] # last'.b /\ evals[j] \in {"opp", "running"}
                                => evals'[j] = evals[j]
               /\ pc' = "settle"
                    => /\ \A j \in DOMAIN evals :
                             cands[j] # last'.b => evals[j] \in {"null", "opp"}
                       /\ Members(queue') = {o.borrower : o \in opps'}
                       /\ Len(queue') = Cardinality(opps')]_vars
    /\ [][(last'.op = "cycleEnd" /\ isRunning)
            => Members(taken) = {o.borrower : o \in opps}]_vars

\* The last evaluation of a cycle threw, and the settlement phase starts with
\* the Opportunity of another candidate.
C38_Witness ==
    /\ last.op = "evalDone" /\ last.threw
    /\ pc = "settle"
    /\ queue # <<>>
    /\ \A k \in DOMAIN queue : queue[k] # last.b
    /\ Members(queue) = {o.borrower : o \in opps}

---------------------------------------------------------------------------
\* The RPC manager on its own: calls of getProvider one after the other,
\* switchToFastest at any moment, endpoints going down and coming back
\* between the calls.

NextRpc ==
    \/ \E rotate \in BOOLEAN : GetProviderStart(rotate)
    \/ \E responseTime \in ResponseTimes : GetProviderFirst(responseTime)
    \/ GetProviderBackup
    \/ SwitchToFastest
    \/ \E up \in SUBSET Endpoints : Reachability(up)

\* The module as loaded, without a borrower store.
InitManager == InitMonitor /\ ~dbEnabled

SpecRpc == InitManager /\ [][NextRpc]_vars

---------------------------------------------------------------------------
\* Claims about the RPC manager

\* C39 (failover exhaustiveness): a call of getProvider that ends with
\* 'All RPCs failing' has checked every configured endpoint and found each
\* failing, and a call made while at least one endpoint is reachable returns
\* a provider bound to a reachable endpoint.
C39_FailoverExhaustive ==
    last.op = "getProvider" =>
        /\ last.threw => last.tested = Endpoints /\ last.up = {}
        /\ last.up # {} => ~last.threw /\ last.provider \in last.up

\* getProvider has thrown 'All RPCs failing' after two checks although a
\* third endpoint, which it never checked, is reachable.
C39_Witness ==
    /\ last.op = "getProvider"
    /\ last.threw
    /\ Cardinality(last.tested) <= 2
    /\ (last.up \ last.tested) # {}

\* The endpoints with a recorded average response time.
WithAverage == {i \in Endpoints : rpcHealth[i].avgResponseTime > 0}

\* C40 (fastest-endpoint selection): the index switchToFastest gets from
\* getFastestRPC is that of an endpoint whose recorded average is the least
\* of the recorded ones, or the current index when none is recorded, and
\* after switchToFastest it is the current index.
C40_FastestSelection ==
    [][last'.op = "switchToFastest" =>
            /\ IF WithAverage = {}
               THEN last'.fastest = currentIndex
               ELSE /\ last'.fastest \in WithAverage
                    /\ \A i \in WithAverage : rpcHealth[last'.fastest].avgResponseTime
                                                 <= rpcHealth[i].avgResponseTime
            /\ currentIndex' = last'.fastest]_vars

\* switchToFastest has made current an endpoint without a recorded average
\* while a slower-or-faster measured endpoint exists.
C40_Witness ==
    /\ last.op = "switchToFastest"
    /\ currentIndex = last.fastest
    /\ last.fastest # last.before
    /\ last.fastest \notin WithAverage
    /\ WithAverage # {}

====
